---- MODULE Spec2Model ----
(***************************************************************************)
(* JTP (Janky Transfer Protocol): the encoder that fragments a message     *)
(* into packets with a 12-byte header, and the decoder that reassembles    *)
(* packets into messages, one accumulator per message type.                *)
(*                                                                         *)
(* Packets are byte sequences; the header is written and parsed byte by    *)
(* byte as the code does.  Message ids keep their 16-bit width.  The       *)
(* payload size limit and the thresholds that defer work to a later turn   *)
(* of the event loop are scaled down (see the bounds below), so that       *)
(* multi-fragment messages and deferred reassembly occur in small cases.   *)
(***************************************************************************)
EXTENDS Integers, Sequences, FiniteSets, TLC

(* ------------------------------------------------------------------ *)
(* Program constants                                                  *)
(* ------------------------------------------------------------------ *)
VERSION == 0
MAGIC_BYTE == 74
HEADER_SIZE == 12
MAX_MESSAGE_ID == 65535
MAX_FRAGMENT_COUNT == 65535

(* ------------------------------------------------------------------ *)
(* Bounds (scaled program limits and input sizes)                      *)
(* ------------------------------------------------------------------ *)
\* MAX_PAYLOAD_SIZE is 1200 in lib/constants.js; scaled.
MAX_PAYLOAD_SIZE == 2
\* decode_packet defers reassembly when fragment_count > 100; scaled.
DEFER_FRAGMENT_COUNT == 2
\* ... or when message_len > 64 * 1024; scaled.
DEFER_MESSAGE_LEN == 3
\* _encode_message_async yields when fragment_index % 10 === 9; scaled.
YIELD_INTERVAL == 2
\* ... or on every fragment when fragment_count > 100; scaled.
YIELD_FRAGMENT_COUNT == 4
\* encode_message rejects a message of more than 0xFFFF fragments; scaled.
ENCODE_FRAGMENT_LIMIT == 5
\* largest fragment_index / fragment_count field the environment injects
MaxFragCount == 3
\* most setImmediate callbacks that may be waiting at once
MaxPending == 2
\* most decoder steps of a traced run over injected packets
MaxSteps == 5
\* encode_message calls the host makes in a run of the encoder alone
MaxCalls == 3
\* generators a host creates with packetize and packetize_all
MaxGenerators == 3
\* encode_message calls made back to back by a host that streams messages
MaxStreamCalls == 2
\* longest packet list passed to decode_packets_batch
MaxBatchLen == 3

(* ------------------------------------------------------------------ *)
(* Maps (JS Map) as functions with a finite domain                     *)
(* ------------------------------------------------------------------ *)
EmptyMap == [x \in {} |-> x]

Has(m, k) == k \in DOMAIN m

Put(m, k, v) == [x \in (DOMAIN m) \cup {k} |-> IF x = k THEN v ELSE m[x]]

Delete(m, k) == [x \in (DOMAIN m) \ {k} |-> m[x]]

(* ------------------------------------------------------------------ *)
(* Buffer reads and writes                                             *)
(* ------------------------------------------------------------------ *)
WriteUInt8(v) == <<v % 256>>

\* a 16-bit write with the high byte first
WriteUInt16BE(v) == <<(v \div 256) % 256, v % 256>>

WriteUInt16LE(v) == <<v % 256, (v \div 256) % 256>>

WriteUInt32LE(v) ==
    <<v % 256, (v \div 256) % 256, (v \div 65536) % 256, (v \div 16777216) % 256>>

\* offsets are 0-based as in the code; sequences are 1-based
ReadUInt8(b, off) == b[off + 1]

ReadUInt16LE(b, off) == b[off + 1] + 256 * b[off + 2]

ReadUInt32LE(b, off) ==
    b[off + 1] + 256 * b[off + 2] + 65536 * b[off + 3] + 16777216 * b[off + 4]

\* Buffer.subarray(start) / slice of bytes [start, end)
Subarray(b, start, end) == SubSeq(b, start + 1, end)

(* ------------------------------------------------------------------ *)
(* Decoder                                                            *)
(* ------------------------------------------------------------------ *)
VARIABLES
    source_id,       \* JTPDecoder.source_id
    message_types,   \* JTPDecoder.message_types: <<>> for null, <<S>> for Set S
    accumulators,    \* JTPDecoder._accumulators: message_type -> accumulator
    error_listener,  \* whether the host listens to the decoder's 'error'
    immediates,      \* setImmediate queue of the event loop (FIFO)
    op,              \* the last operation
    pkt,             \* argument of the last decode_packet call, or of the
                     \* last reset_message_state call (<<>> for none)
    ret,             \* its return value (FALSE after another operation)
    events,          \* events emitted by the decoder during the last step
    thrown,          \* whether the last step ended with an exception
    batch,           \* arguments of the decode_packets_batch call: <<>>
                     \* before it, then its packets and batch_size
    tracing,         \* whether the decoder's steps are also kept in log
    log,             \* the decoder's steps so far, while tracing: each the
                     \* operation, its packet, return value and events
    enc_source_id,   \* JTPEncoder.source_id
    enc_message_id,  \* JTPEncoder.message_id
    budget,          \* encode_message calls the host still makes
    call,            \* arguments of the last encode_message call
    enc_ret,         \* its return value: <<>> for null, <<id>> for an id
    enc_calls,       \* the encode_message calls of the run so far: message
                     \* type, kind and length of the payload, return value
    enc_before,      \* successful encode_message calls made before the run
    callbacks,       \* invocations of the callbacks passed to encode_message
    gen_message_id,  \* message_id of the encoder with the generator API
    gens,            \* the generators returned by packetize so far
    sent,            \* events emitted by the encoder so far, in order
    delivered        \* positions in sent whose packet reached the decoder

vars == << source_id, message_types, accumulators, error_listener, immediates,
           op, pkt, ret, events, thrown, batch, tracing, log, enc_source_id, enc_message_id, budget, call,
           enc_ret, enc_calls, enc_before, callbacks, gen_message_id, gens, sent,
           delivered >>

decVars == << source_id, message_types, accumulators, error_listener, batch >>

genVars == << gen_message_id, gens >>

encVars == << enc_source_id, enc_message_id, budget, call, enc_ret, enc_calls,
             enc_before, callbacks, genVars, sent >>

ErrorEvent(m) == [kind |-> "error", msg |-> m]

\* a comparison that forgets the wraparound
IsNewerPlain(new_id, old_id) == new_id > old_id

\* a comparison that counts the half-range distance itself as newer
IsNewerInclusive(new_id, old_id) ==
    LET diff == (new_id - old_id) % 65536
    IN  diff > 0 /\ diff <= 32768

_is_newer_message(new_id, old_id) ==
    LET diff == (new_id - old_id) % 65536
    IN  diff > 0 /\ diff < 32768

\* a reset that takes type 0 for a missing argument
ResetTruthy(accs, message_type) ==
    IF message_type = <<>> \/ message_type = <<0>>
    THEN EmptyMap
    ELSE Delete(accs, message_type[1])

\* a reset that clears every type whatever its argument
ResetEverything(accs, message_type) == EmptyMap

\* a reset that deletes nothing
ResetNothing(accs, message_type) == accs

\* reset_message_state(message_type = null); null is <<>>, a type t is <<t>>
reset_message_state(accs, message_type) ==
    IF message_type = <<>> THEN EmptyMap ELSE Delete(accs, message_type[1])

RECURSIVE Concat(_, _, _)
\* the copy loop of _reassemble_message: fragments i .. count-1 in index order
Concat(fragments, i, count) ==
    IF i >= count THEN <<>> ELSE fragments[i] \o Concat(fragments, i + 1, count)

\* a copy loop that starts at the second fragment
ReassembledFromSecond(accumulator) ==
    Concat(accumulator.fragments, 1, accumulator.fragment_count)

\* the message buffer that _reassemble_message fills from a complete accumulator
Reassembled(accumulator) ==
    Concat(accumulator.fragments, 0, accumulator.fragment_count)

\* _reassemble_message(message_type, expected_message_id):
\* the accumulators left, the events emitted, and whether it threw: the
\* emit('error') of its catch block throws when 'error' has no listener, and
\* the reset after it is not reached
_reassemble_message(accs, message_type, expected_message_id) ==
    IF ~Has(accs, message_type) \/ accs[message_type].message_id # expected_message_id
    THEN [accs |-> accs, events |-> <<>>, thrown |-> FALSE]
    ELSE
      LET accumulator == accs[message_type]
          missing == \E i \in 0 .. accumulator.fragment_count - 1 :
                        ~Has(accumulator.fragments, i)
          message_buffer == Reassembled(accumulator)
          emitted ==
            IF missing
            THEN << ErrorEvent("Reassembly failed") >>
            ELSE << [kind |-> "message", buffer |-> message_buffer,
                     message_type |-> message_type,
                     message_id |-> expected_message_id,
                     fragment_count |-> accumulator.fragment_count,
                     total_bytes |-> accumulator.message_len],
                    [kind |-> "message:complete",
                     message_type |-> message_type,
                     message_id |-> expected_message_id,
                     fragment_count |-> accumulator.fragment_count,
                     total_bytes |-> accumulator.message_len] >>
      IN  IF missing /\ ~error_listener
          THEN [accs |-> accs, events |-> <<>>, thrown |-> TRUE]
          ELSE [accs |-> reset_message_state(accs, <<message_type>>),
                events |-> emitted, thrown |-> FALSE]

\* the 'message:incomplete' event for the accumulator being replaced
IncompleteEvent(message_type, accumulator) ==
    [kind |-> "message:incomplete",
     message_type |-> message_type,
     message_id |-> accumulator.message_id,
     fragments_received |-> accumulator.fragments_received,
     fragment_count |-> accumulator.fragment_count]

\* the 'message:start' event
StartEvent(message_type, message_id, fragment_count) ==
    [kind |-> "message:start", message_type |-> message_type,
     message_id |-> message_id, fragment_count |-> fragment_count]

\* a 'fragment:received' event that reports the count before the increment
ReceivedEventStale(message_type, message_id, fragment_index, fragment_count, accumulator) ==
    [kind |-> "fragment:received",
     message_type |-> message_type,
     message_id |-> message_id,
     fragment_index |-> fragment_index,
     fragment_count |-> fragment_count,
     fragments_received |-> accumulator.fragments_received - 1]

\* the 'fragment:received' event, emitted after the fragment is stored
ReceivedEvent(message_type, message_id, fragment_index, fragment_count, accumulator) ==
    [kind |-> "fragment:received",
     message_type |-> message_type,
     message_id |-> message_id,
     fragment_index |-> fragment_index,
     fragment_count |-> fragment_count,
     fragments_received |-> accumulator.fragments_received]

\* a duplicate check that never finds one
IsDuplicateNever(accumulator, fragment_index) == FALSE

\* the duplicate check of decode_packet
IsDuplicate(accumulator, fragment_index) ==
    Has(accumulator.fragments, fragment_index)

\* decode_packet returns r
Result(accs, evs, r, sched) ==
    [accs |-> accs, events |-> evs, ret |-> r, sched |-> sched, thrown |-> FALSE]

\* decode_packet ends with an exception
Thrown(accs, evs) ==
    [accs |-> accs, events |-> evs, ret |-> FALSE, sched |-> <<>>, thrown |-> TRUE]

\* this.emit('error', new Error(m)) after the events evs, followed by what
\* the code does next, which leaves the accumulators after, and return
\* false; with no listener for 'error' the emit throws the error instead
\* and leaves the accumulators as they are at the emit
Fail(at_emit, after, evs, m) ==
    IF error_listener
    THEN Result(after, evs \o << ErrorEvent(m) >>, FALSE, <<>>)
    ELSE Thrown(at_emit, evs)

\* a store that leaves message_len as it was
StoreFragmentNoLength(accumulator, fragment_index, payload) ==
    [accumulator EXCEPT !.fragments = Put(@, fragment_index, payload),
                        !.fragments_received = @ + 1]

\* the fragment is stored in the accumulator: fragments.set,
\* fragments_received++, message_len += payload_length
StoreFragment(accumulator, fragment_index, payload) ==
    [accumulator EXCEPT !.fragments = Put(@, fragment_index, payload),
                        !.fragments_received = @ + 1,
                        !.message_len = @ + Len(payload)]

\* decode_packet once the packet has passed validation: freshness check,
\* accumulator replacement, duplicate check, storing and completion
Accumulate(accs, message_type, message_id, fragment_index, fragment_count, payload) ==
    LET had == Has(accs, message_type)
    IN
    IF had /\ _is_newer_message(accs[message_type].message_id, message_id)
    THEN Result(accs, <<>>, FALSE, <<>>)
    ELSE
      LET fresh == ~had \/ _is_newer_message(message_id, accs[message_type].message_id)
          ev1 == IF fresh /\ had
                 THEN << IncompleteEvent(message_type, accs[message_type]) >>
                 ELSE <<>>
          ev2 == IF fresh
                 THEN << StartEvent(message_type, message_id, fragment_count) >>
                 ELSE <<>>
          accumulator == IF fresh
                         THEN [message_id |-> message_id,
                               fragment_count |-> fragment_count,
                               fragments_received |-> 0,
                               fragments |-> EmptyMap,
                               message_len |-> 0,
                               valid |-> TRUE]
                         ELSE accs[message_type]
          accs1 == IF fresh THEN Put(accs, message_type, accumulator) ELSE accs
      IN
      IF message_id # accumulator.message_id
      THEN Fail(accs1, accs1, ev1 \o ev2, "Message ID mismatch")
      ELSE IF IsDuplicate(accumulator, fragment_index)
      THEN Fail(accs1, accs1, ev1 \o ev2, "Duplicate fragment")
      ELSE
        LET stored == StoreFragment(accumulator, fragment_index, payload)
            accs2 == Put(accs1, message_type, stored)
        IN
        IF stored.fragments_received > stored.fragment_count
        THEN Fail(accs2, reset_message_state(accs2, <<message_type>>),
                  ev1 \o ev2, "Fragment count exceeded")
        ELSE
          LET ev3 == << ReceivedEvent(message_type, message_id, fragment_index,
                                      fragment_count, stored) >>
          IN
          IF stored.fragments_received = stored.fragment_count
          THEN IF stored.fragment_count > DEFER_FRAGMENT_COUNT
                  \/ stored.message_len > DEFER_MESSAGE_LEN
               THEN Result(accs2, ev1 \o ev2 \o ev3, TRUE,
                           << [task |-> "reassemble", message_type |-> message_type,
                               message_id |-> message_id] >>)
               ELSE LET r == _reassemble_message(accs2, message_type, message_id)
                    IN  IF r.thrown
                        THEN Thrown(r.accs, ev1 \o ev2 \o ev3 \o r.events)
                        ELSE Result(r.accs, ev1 \o ev2 \o ev3 \o r.events, TRUE, <<>>)
          ELSE Result(accs2, ev1 \o ev2 \o ev3, TRUE, <<>>)

\* a type filter that drops the listed types
FilteredIfListed(types, message_type) ==
    types # <<>> /\ message_type \in types[1]

\* the type filter of decode_packet: message_types is set and lacks the type
Filtered(types, message_type) ==
    types # <<>> /\ message_type \notin types[1]

\* a source check that compares the three high bytes only
WrongSourceHigh(p_source_id, src) == p_source_id \div 256 # src \div 256

\* the source check of decode_packet
WrongSource(p_source_id, src) == p_source_id # src

\* a validation that lets fragment_index = fragment_count through
InvalidFragmentLoose(fragment_index, fragment_count, payload_length) ==
    fragment_index > fragment_count \/ fragment_count = 0
    \/ payload_length > MAX_PAYLOAD_SIZE

\* the basic validation of decode_packet
InvalidFragment(fragment_index, fragment_count, payload_length) ==
    fragment_index >= fragment_count \/ fragment_count = 0
    \/ payload_length > MAX_PAYLOAD_SIZE

\* a version check that accepts every version
UnsupportedVersionNever(version) == FALSE

\* the version check of decode_packet
UnsupportedVersion(version) == version # VERSION

\* the header fields as decode_packet reads them from a packet of at least
\* twelve bytes
ParseHeader(packet) ==
    [version |-> (ReadUInt8(packet, 1) \div 64) % 4,
     message_type |-> ReadUInt8(packet, 1) % 64,
     message_id |-> ReadUInt16LE(packet, 2),
     fragment_index |-> ReadUInt16LE(packet, 4),
     fragment_count |-> ReadUInt16LE(packet, 6),
     source_id |-> ReadUInt32LE(packet, 8)]

\* decode_packet(packet) on a decoder with the given source id, type filter
\* and accumulators
decode_packet(src, types, accs, packet) ==
    IF Len(packet) < 1 \/ ReadUInt8(packet, 0) # MAGIC_BYTE
    THEN Result(accs, <<>>, FALSE, <<>>)
    ELSE IF Len(packet) < 12
    THEN Fail(accs, accs, <<>>, "Packet too short")
    ELSE
      LET version_and_type == ReadUInt8(packet, 1)
          version == (version_and_type \div 64) % 4
          message_type == version_and_type % 64
      IN
      IF UnsupportedVersion(version)
      THEN Fail(accs, accs, <<>>, "Unsupported version")
      ELSE
        LET message_id == ReadUInt16LE(packet, 2)
            fragment_index == ReadUInt16LE(packet, 4)
            fragment_count == ReadUInt16LE(packet, 6)
            p_source_id == ReadUInt32LE(packet, 8)
            payload == Subarray(packet, 12, Len(packet))
            payload_length == Len(payload)
        IN
        IF WrongSource(p_source_id, src)
        THEN Result(accs, <<>>, FALSE, <<>>)
        ELSE IF Filtered(types, message_type)
        THEN Result(accs, <<>>, FALSE, <<>>)
        ELSE IF InvalidFragment(fragment_index, fragment_count, payload_length)
        THEN Fail(accs, accs, <<>>, "Invalid fragment")
        ELSE Accumulate(accs, message_type, message_id, fragment_index,
                        fragment_count, payload)

\* _reassemble_message(message_type, expected_message_id) under a host whose
\* listener of the event named at ("message" or "message:complete") calls
\* decode_packet(packet) from within the emit: the call runs on the
\* accumulators as they are during the emit, and the reset at the end of
\* _reassemble_message follows it
ReassembleWithListener(src, types, accs, message_type, expected_message_id, at, packet) ==
    LET plain == _reassemble_message(accs, message_type, expected_message_id)
    IN  IF plain.thrown \/ Len(plain.events) # 2
        THEN [accs |-> plain.accs, events |-> plain.events, sched |-> <<>>,
              thrown |-> plain.thrown]
        ELSE LET r == decode_packet(src, types, accs, packet)
             IN  [accs |-> reset_message_state(r.accs, << message_type >>),
                  events |-> IF at = "message"
                             THEN << plain.events[1] >> \o r.events
                                  \o << plain.events[2] >>
                             ELSE plain.events \o r.events,
                  sched |-> r.sched,
                  thrown |-> r.thrown]

RECURSIVE DecodeAll(_, _, _, _)
\* the inner loop of decode_packets_batch over one batch: decode_packet on
\* each packet in order; an exception is caught and emitted as 'error',
\* which throws again, out of the loop, when 'error' has no listener
DecodeAll(src, types, accs, packets) ==
    IF packets = <<>>
    THEN [accs |-> accs, events |-> <<>>, sched |-> <<>>, thrown |-> FALSE]
    ELSE LET r == decode_packet(src, types, accs, Head(packets))
         IN  IF r.thrown
             THEN [accs |-> r.accs, events |-> r.events, sched |-> r.sched,
                   thrown |-> TRUE]
             ELSE LET rest == DecodeAll(src, types, r.accs, Tail(packets))
                  IN  [accs |-> rest.accs,
                       events |-> r.events \o rest.events,
                       sched |-> r.sched \o rest.sched,
                       thrown |-> rest.thrown]

\* packets.slice(i, i + batch_size)
Slice(packets, i, batch_size) ==
    SubSeq(packets, i + 1, IF i + batch_size < Len(packets)
                           THEN i + batch_size ELSE Len(packets))

\* one turn of decode_packets_batch(packets, batch_size) at offset i: the
\* batch is decoded, and the function awaits a setImmediate when packets
\* remain after it
BatchTurn(src, types, accs, packets, batch_size, i) ==
    LET r == DecodeAll(src, types, accs, Slice(packets, i, batch_size))
    IN  [accs |-> r.accs, events |-> r.events, thrown |-> r.thrown,
         sched |-> r.sched \o
                   (IF ~r.thrown /\ i + batch_size < Len(packets)
                    THEN << [task |-> "batch", packets |-> packets,
                             batch_size |-> batch_size, i |-> i + batch_size] >>
                    ELSE <<>>)]

(* ------------------------------------------------------------------ *)
(* Encoder                                                            *)
(* ------------------------------------------------------------------ *)
Min(a, b) == IF a < b THEN a ELSE b

\* a maximum that returns its second argument
MaxSecond(a, b) == b

Max(a, b) == IF a > b THEN a ELSE b

\* Math.floor in the place of Math.ceil
Floor(a, b) == a \div b

\* Math.ceil(a / b) for a >= 0, b > 0
Ceil(a, b) == (a + b - 1) \div b

\* an increment without the wraparound
IncrementNoWrap(id) == id + 1

\* an increment that leaves the counter as it is
IncrementNever(id) == id

increment_message_id(id) == (id + 1) % 65536

\* the twelve header bytes written by _encode_message_async
Header(src, message_type, message_id, fragment_index, fragment_count) ==
    LET version_and_type == VERSION * 64 + (message_type % 64)
    IN  WriteUInt8(MAGIC_BYTE) \o WriteUInt8(version_and_type)
        \o WriteUInt16LE(message_id) \o WriteUInt16LE(fragment_index)
        \o WriteUInt16LE(fragment_count) \o WriteUInt32LE(src)

\* the 'packet' event of one loop iteration of _encode_message_async
PacketEvent(src, job, fragment_index) ==
    LET message_length == Len(job.message_buffer)
        frag_start == fragment_index * MAX_PAYLOAD_SIZE
        frag_end == Min(frag_start + MAX_PAYLOAD_SIZE, message_length)
    IN  [kind |-> "packet",
         packet |-> Header(src, job.message_type, job.message_id, fragment_index,
                           job.fragment_count)
                    \o Subarray(job.message_buffer, frag_start, frag_end),
         message_id |-> job.message_id,
         message_type |-> job.message_type,
         fragment_index |-> fragment_index,
         fragment_count |-> job.fragment_count,
         fragment_size |-> frag_end - frag_start]

\* whether the loop awaits a setImmediate after emitting fragment_index
Yields(fragment_index, fragment_count) ==
    fragment_index % YIELD_INTERVAL = YIELD_INTERVAL - 1
    \/ fragment_count > YIELD_FRAGMENT_COUNT

\* a loop that stops before the last fragment
LoopDoneEarly(fragment_index, fragment_count) == fragment_index + 1 >= fragment_count

\* the loop of _encode_message_async has run through every fragment
LoopDone(fragment_index, fragment_count) == fragment_index >= fragment_count

\* a loop step that skips an index
NextIndexSkip(fragment_index) == fragment_index + 2

\* fragment_index++ of the loop of _encode_message_async
NextIndex(fragment_index) == fragment_index + 1

\* completion_metadata of _encode_message_async
CompletionMetadata(job) ==
    [message_id |-> job.message_id,
     message_type |-> job.message_type,
     fragment_count |-> job.fragment_count,
     total_bytes |-> Len(job.message_buffer)]

\* callback(completion_metadata): the argument list of the completion call,
\* each argument <<v>> for a value v and <<>> for null or undefined
CallbackArgs(job) == << << CompletionMetadata(job) >> >>

RECURSIVE EncodeRun(_, _, _)
\* _encode_message_async from fragment_index up to its next await or its end:
\* the events emitted, the argument lists of the callback invocations (every
\* call is given a callback) and the index to resume at (<<>> when finished)
EncodeRun(src, job, fragment_index) ==
    IF LoopDone(fragment_index, job.fragment_count)
    THEN [emitted |-> << [kind |-> "message:encoded",
                          message_id |-> job.message_id,
                          message_type |-> job.message_type,
                          fragment_count |-> job.fragment_count,
                          total_bytes |-> Len(job.message_buffer)] >>,
          called |-> << CallbackArgs(job) >>,
          resume |-> <<>>]
    ELSE IF Yields(fragment_index, job.fragment_count)
    THEN [emitted |-> << PacketEvent(src, job, fragment_index) >>,
          called |-> <<>>,
          resume |-> << NextIndex(fragment_index) >>]
    ELSE LET rest == EncodeRun(src, job, NextIndex(fragment_index))
         IN  [emitted |-> << PacketEvent(src, job, fragment_index) >> \o rest.emitted,
              called |-> rest.called,
              resume |-> rest.resume]

\* a type check that lets 64 through
InvalidTypeLoose(message_type) == message_type < 0 \/ message_type > 64

\* the message type check of encode_message
InvalidType(message_type) == message_type < 0 \/ message_type > 63

\* encode_message(message_buffer, message_type): the return value, the
\* counter afterwards and the setImmediate callback it schedules.
\* A call argument is [is_buffer |-> BOOLEAN, bytes |-> sequence of bytes].
encode_message(counter, message_buffer, message_type) ==
    IF InvalidType(message_type)
    THEN [ret |-> <<>>, counter |-> counter,
          sched |-> [task |-> "emit_error", msg |-> "Message type must be 0-63"]]
    ELSE IF ~message_buffer.is_buffer
    THEN [ret |-> <<>>, counter |-> counter,
          sched |-> [task |-> "emit_error", msg |-> "message_buffer must be a Buffer"]]
    ELSE
      LET message_length == Len(message_buffer.bytes)
          fragment_count == Max(1, Ceil(message_length, MAX_PAYLOAD_SIZE))
      IN
      IF fragment_count > ENCODE_FRAGMENT_LIMIT
      THEN [ret |-> <<>>, counter |-> counter,
            sched |-> [task |-> "emit_error", msg |-> "Message too large"]]
      ELSE [ret |-> << counter >>, counter |-> increment_message_id(counter),
            sched |-> [task |-> "encode",
                       message_buffer |-> message_buffer.bytes,
                       message_type |-> message_type,
                       message_id |-> counter,
                       fragment_count |-> fragment_count,
                       fragment_index |-> 0]]

(* ------------------------------------------------------------------ *)
(* Encoder with the generator API                                     *)
(* ------------------------------------------------------------------ *)
\* the generator object returned by packetize(payload_buffer, packet_type):
\* nothing of the body has run; all tells whether packetize_all drives it
NewGenerator(payload_buffer, packet_type, all) ==
    [payload_buffer |-> payload_buffer, packet_type |-> packet_type, all |-> all,
     state |-> "suspendedStart", message_id |-> <<>>, fragment_index |-> 0,
     fragment_count |-> 0, packets |-> <<>>, error |-> <<>>]

\* the generator ends with an exception
GenThrow(g, m) == [g EXCEPT !.state = "completed", !.error = << m >>]

\* the loop of packetize at fragment_index: the packet is built and yielded,
\* or the loop and the generator end
GenLoop(ssrc, g, fragment_index) ==
    IF fragment_index < g.fragment_count
    THEN LET frag_start == fragment_index * MAX_PAYLOAD_SIZE
             frag_end == Min(frag_start + MAX_PAYLOAD_SIZE, Len(g.payload_buffer.bytes))
         IN  [g EXCEPT !.state = "suspendedYield",
                       !.fragment_index = fragment_index,
                       !.packets = Append(@,
                           Header(ssrc, g.packet_type, g.message_id[1],
                                  fragment_index, g.fragment_count)
                           \o Subarray(g.payload_buffer.bytes, frag_start, frag_end))]
    ELSE [g EXCEPT !.state = "completed"]

\* Math.ceil(full_payload_length / MAX_PAYLOAD_SIZE) of packetize
GenFragmentCount(full_payload_length) == Ceil(full_payload_length, MAX_PAYLOAD_SIZE)

\* the first next() of a generator: the body of packetize runs from its
\* start to the first yield; the generator and the counter afterwards
GenStart(counter, ssrc, g) ==
    IF InvalidType(g.packet_type)
    THEN [gen |-> GenThrow(g, "Packet type must be 0-63"), counter |-> counter]
    ELSE IF ~g.payload_buffer.is_buffer
    THEN [gen |-> GenThrow(g, "payload_buffer must be a Buffer"), counter |-> counter]
    ELSE
      LET fragment_count == GenFragmentCount(Len(g.payload_buffer.bytes))
      IN  IF fragment_count > ENCODE_FRAGMENT_LIMIT
          THEN [gen |-> GenThrow(g, "Data too large"), counter |-> counter]
          ELSE [gen |-> GenLoop(ssrc,
                                [g EXCEPT !.message_id = << counter >>,
                                          !.fragment_count = fragment_count],
                                0),
                counter |-> increment_message_id(counter)]

(* ------------------------------------------------------------------ *)
(* Inputs                                                             *)
(* ------------------------------------------------------------------ *)
\* createValidPacket of the tests, with every header field free
RawPacket(magic, version, message_type, message_id, fragment_index, fragment_count, src, payload) ==
    WriteUInt8(magic) \o WriteUInt8(version * 64 + (message_type % 64))
    \o WriteUInt16LE(message_id) \o WriteUInt16LE(fragment_index)
    \o WriteUInt16LE(fragment_count) \o WriteUInt32LE(src) \o payload

\* the decoder's source id in the tests (0x12345678) and another sender's
SOURCE_IDS == << 305419896, 305419897 >>

\* payload bytes 1, 2, ..., n: every position carries a different byte
Pattern(n) == [i \in 1 .. n |-> i % 256]

\* message ids around the wraparound and the half-range boundary
InjectIds == {0, 32768, 65535}

\* fragment_index / fragment_count pairs of valid fragments
Shapes == {s \in (0 .. MaxFragCount - 1) \X (1 .. MaxFragCount) : s[1] < s[2]}

\* payloads injected with a shape: two-fragment messages come with empty and
\* with full fragments (below and above DEFER_MESSAGE_LEN), longer ones empty
PayloadsOf(s) ==
    IF s[2] = 1 THEN { Pattern(MAX_PAYLOAD_SIZE) }
    ELSE IF s[2] = 2 THEN { <<>>, Pattern(MAX_PAYLOAD_SIZE) }
    ELSE { <<>> }

\* fragments that pass validation: a busy type 0, a quiet type 1, and a
\* full last fragment of the longest message
ValidPackets ==
    UNION { { RawPacket(MAGIC_BYTE, VERSION, 0, id, s[1], s[2], SOURCE_IDS[1], pl) :
                id \in InjectIds, pl \in PayloadsOf(s) } : s \in Shapes }
    \cup
    { RawPacket(MAGIC_BYTE, VERSION, 1, 0, i, 2, SOURCE_IDS[1], <<9>>) : i \in {0, 1} }
    \cup
    { RawPacket(MAGIC_BYTE, VERSION, 0, 0, MaxFragCount - 1, MaxFragCount,
                SOURCE_IDS[1], Pattern(MAX_PAYLOAD_SIZE)) }

\* packets that one of the checks of decode_packet rejects
RejectedPackets ==
    { <<>>,
      << MAGIC_BYTE, 2 >>,
      RawPacket(0, VERSION, 0, 0, 0, 1, SOURCE_IDS[1], <<>>),
      RawPacket(MAGIC_BYTE, 1, 2, 0, 0, 1, SOURCE_IDS[1], <<>>),
      RawPacket(MAGIC_BYTE, VERSION, 0, 0, 0, 1, SOURCE_IDS[2], <<>>),
      RawPacket(MAGIC_BYTE, VERSION, 2, 0, 1, 0, SOURCE_IDS[2],
                Pattern(MAX_PAYLOAD_SIZE + 1)),
      RawPacket(MAGIC_BYTE, VERSION, 2, 0, 0, 1, SOURCE_IDS[1], <<>>),
      RawPacket(MAGIC_BYTE, VERSION, 0, 0, 0, 0, SOURCE_IDS[1], <<>>),
      RawPacket(MAGIC_BYTE, VERSION, 0, 0, 1, 1, SOURCE_IDS[1], <<>>),
      RawPacket(MAGIC_BYTE, VERSION, 0, 0, 0, 1, SOURCE_IDS[1],
                Pattern(MAX_PAYLOAD_SIZE + 1)) }

Packets == ValidPackets \cup RejectedPackets

\* header fields and payload of the packets of traced runs: a two-fragment
\* message 65535 of full fragments, a newer two-fragment message 0 of empty
\* fragments, a single-fragment packet and a three-fragment packet that
\* reuse id 0, and a message of type 1
TraceFields ==
    { << 0, 65535, 0, 2, Pattern(MAX_PAYLOAD_SIZE) >>,
      << 0, 65535, 1, 2, Pattern(MAX_PAYLOAD_SIZE) >>,
      << 0, 0, 0, 2, <<>> >>,
      << 0, 0, 1, 2, <<>> >>,
      << 0, 0, 0, 1, Pattern(1) >>,
      << 0, 0, 2, 3, <<>> >>,
      << 1, 0, 0, 1, <<9>> >> }

TracePackets ==
    { RawPacket(MAGIC_BYTE, VERSION, f[1], f[2], f[3], f[4], SOURCE_IDS[1], f[5]) :
        f \in TraceFields }

\* packet lists passed to decode_packets_batch
BatchLists == UNION { [1 .. n -> TracePackets] : n \in 1 .. MaxBatchLen }

\* batch_size arguments
BatchSizes == 1 .. MaxBatchLen

\* message_types options of the decoder under test
DecoderFilters == { <<>>, << {0, 1} >> }

\* arguments of reset_message_state
ResetArgs == { <<>>, <<0>>, <<1>> }

\* arguments of encode_message
EncodeBuffers ==
    { [is_buffer |-> TRUE, bytes |-> Pattern(n)] : n \in 0 .. 5 * MAX_PAYLOAD_SIZE }
    \cup { [is_buffer |-> FALSE, bytes |-> <<>>] }

EncodeTypes == {-1, 0, 5, 63, 64}

\* a Buffer that needs one fragment more than encode_message accepts
TooLargeBuffer ==
    [is_buffer |-> TRUE, bytes |-> Pattern(ENCODE_FRAGMENT_LIMIT * MAX_PAYLOAD_SIZE + 1)]

\* encode_message calls of a run of the encoder alone: an empty message, a
\* message of three full fragments, one of five fragments, and a call for
\* each validation failure
EncodeCalls ==
    { << [is_buffer |-> TRUE, bytes |-> <<>>], 0 >>,
      << [is_buffer |-> TRUE, bytes |-> Pattern(3 * MAX_PAYLOAD_SIZE)], 63 >>,
      << [is_buffer |-> TRUE, bytes |-> Pattern(5 * MAX_PAYLOAD_SIZE - 1)], 5 >>,
      << [is_buffer |-> TRUE, bytes |-> <<>>], -1 >>,
      << [is_buffer |-> TRUE, bytes |-> Pattern(1)], 64 >>,
      << [is_buffer |-> FALSE, bytes |-> <<>>], 0 >>,
      << TooLargeBuffer, 5 >> }

\* encode_message calls of the runs checked for termination: the empty
\* message, three full fragments, five fragments, and a call that fails
FairCalls ==
    { c \in EncodeCalls : c[1].is_buffer /\ c[1] # TooLargeBuffer /\ c[2] >= 0 }

\* header fields around the byte boundaries of each field; source ids up to
\* 2^31 - 1
HeaderFields ==
    [message_type : {0, 1, 63},
     message_id : {0, 255, 256, MAX_MESSAGE_ID},
     fragment_index : {0, 1, 256, MAX_FRAGMENT_COUNT - 1},
     fragment_count : {1, 2, 257, MAX_FRAGMENT_COUNT},
     source_id : {0, 255, 256, 65536, 16777216, SOURCE_IDS[1], 2147483647}]

\* arguments of packetize and packetize_all: an empty buffer, one short
\* fragment, three full fragments, and a type out of range
GenCalls ==
    { << [is_buffer |-> TRUE, bytes |-> <<>>], 0 >>,
      << [is_buffer |-> TRUE, bytes |-> Pattern(1)], 0 >>,
      << [is_buffer |-> TRUE, bytes |-> Pattern(3 * MAX_PAYLOAD_SIZE)], 1 >>,
      << [is_buffer |-> TRUE, bytes |-> Pattern(1)], 64 >> }

\* message lengths of a host that streams messages of one type: one short
\* fragment, and three full fragments
StreamLengths == {1, 3 * MAX_PAYLOAD_SIZE}

\* the message type of the streamed messages
StreamType == 1

\* positions in sent that the streamed messages can fill
StreamPositions == 1 .. (MaxStreamCalls * 4)

\* successful calls an encoder may have behind it when a run starts: none
\* (a fresh encoder), or as many as bring its counter to MAX_MESSAGE_ID
CallsBefore == {0, MAX_MESSAGE_ID}

\* positions in sent that one encoded message can fill
Positions == 1 .. (Ceil(5 * MAX_PAYLOAD_SIZE, MAX_PAYLOAD_SIZE) + 1)

(* ------------------------------------------------------------------ *)
(* Initial states                                                     *)
(* ------------------------------------------------------------------ *)
InitRest ==
    /\ source_id = SOURCE_IDS[1]
    /\ accumulators = EmptyMap
    /\ immediates = <<>>
    /\ op = "new"
    /\ pkt = <<>>
    /\ ret = FALSE
    /\ events = <<>>
    /\ thrown = FALSE
    /\ batch = <<>>
    /\ log = <<>>
    /\ enc_source_id = SOURCE_IDS[1]
    /\ call = [message_buffer |-> [is_buffer |-> TRUE, bytes |-> <<>>],
               message_type |-> 0]
    /\ enc_ret = <<>>
    /\ enc_calls = <<>>
    /\ callbacks = <<>>
    /\ gen_message_id = 0
    /\ gens = <<>>
    /\ sent = <<>>
    /\ delivered = {}

\* a fresh decoder and a fresh encoder, under a host that listens to the
\* decoder's 'error' event
InitProgram ==
    /\ InitRest
    /\ error_listener = TRUE
    /\ enc_message_id = 0
    /\ enc_before = 0

\* a decoder fed with arbitrary packets
Init ==
    /\ InitProgram
    /\ message_types \in DecoderFilters
    /\ tracing = FALSE
    /\ budget = 0

\* an encoder and a decoder joined by a transport that reorders
InitRT ==
    /\ InitProgram
    /\ message_types = <<>>
    /\ tracing = TRUE
    /\ budget = 1

\* an encoder alone: a fresh one, or one whose earlier encodings have all
\* finished and have brought its counter to MAX_MESSAGE_ID
InitEnc ==
    /\ InitRest
    /\ error_listener = TRUE
    /\ enc_before \in CallsBefore
    /\ enc_message_id = enc_before % 65536
    /\ message_types = <<>>
    /\ tracing = FALSE
    /\ budget = MaxCalls

\* a decoder fed with arbitrary packets by a host that has registered no
\* listener for its 'error' event
InitBare ==
    /\ InitRest
    /\ error_listener = FALSE
    /\ enc_message_id = 0
    /\ enc_before = 0
    /\ message_types \in DecoderFilters
    /\ tracing = FALSE
    /\ budget = 0

\* an encoder whose packets go to a decoder in the order of their emission
InitStream ==
    /\ InitProgram
    /\ message_types = <<>>
    /\ tracing = TRUE
    /\ budget = MaxStreamCalls

\* an encoder and a decoder of one source id, and the fields of the header
\* the encoder is about to write, kept in call
InitHeader ==
    /\ call \in HeaderFields
    /\ source_id = call.source_id
    /\ enc_source_id = call.source_id
    /\ accumulators = EmptyMap
    /\ immediates = <<>>
    /\ op = "new"
    /\ pkt = <<>>
    /\ ret = FALSE
    /\ events = <<>>
    /\ thrown = FALSE
    /\ batch = <<>>
    /\ log = <<>>
    /\ enc_ret = <<>>
    /\ enc_calls = <<>>
    /\ callbacks = <<>>
    /\ gen_message_id = 0
    /\ gens = <<>>
    /\ sent = <<>>
    /\ delivered = {}
    /\ error_listener = TRUE
    /\ enc_message_id = 0
    /\ enc_before = 0
    /\ message_types = <<>>
    /\ tracing = FALSE
    /\ budget = 0

\* a fresh encoder with the generator API
InitGen ==
    /\ InitProgram
    /\ message_types = <<>>
    /\ tracing = FALSE
    /\ budget = 0

\* a decoder that is given one list of packets, every step kept in log
InitBatch ==
    /\ InitProgram
    /\ message_types = <<>>
    /\ tracing = TRUE
    /\ budget = 0

\* a decoder fed with a few chosen packets, every step kept in log
InitTrace ==
    /\ InitProgram
    /\ message_types = <<>>
    /\ tracing = TRUE
    /\ budget = 0

(* ------------------------------------------------------------------ *)
(* Actions                                                            *)
(* ------------------------------------------------------------------ *)
\* what a decoder step shows: the operation o, its packet p, return value r
\* and emitted events evs
Observe(o, p, r, evs) ==
    /\ op' = o
    /\ pkt' = p
    /\ ret' = r
    /\ events' = evs
    /\ log' = IF tracing
              THEN Append(log, [op |-> o, packet |-> p, ret |-> r, events |-> evs])
              ELSE log

\* a step of the encoder, which the decoder takes no part in
Aside(o) ==
    /\ op' = o
    /\ pkt' = <<>>
    /\ ret' = FALSE
    /\ events' = <<>>
    /\ thrown' = FALSE
    /\ UNCHANGED log

\* the host calls decode_packet(p)
DecodeStep(p) ==
    \E r \in { decode_packet(source_id, message_types, accumulators, p) } :
        /\ accumulators' = r.accs
        /\ immediates' = immediates \o r.sched
        /\ Observe("decode_packet", p, r.ret, r.events)
        /\ thrown' = r.thrown
        /\ UNCHANGED << source_id, message_types, error_listener, batch, tracing >>

\* an arbitrary datagram arrives
Inject(p) ==
    /\ Len(immediates) < MaxPending
    /\ tracing => Len(log) < MaxSteps
    /\ DecodeStep(p)
    /\ UNCHANGED << encVars, delivered >>

\* the transport delivers a packet of the encoder, each one once
Deliver(i) ==
    /\ i \in 1 .. Len(sent)
    /\ sent[i].kind = "packet"
    /\ i \notin delivered
    /\ DecodeStep(sent[i].packet)
    /\ delivered' = delivered \cup {i}
    /\ UNCHANGED encVars

\* the transport delivers the earliest packet not yet delivered
DeliverInOrder(i) ==
    /\ i \in 1 .. Len(sent)
    /\ \A j \in 1 .. (i - 1) : sent[j].kind = "packet" => j \in delivered
    /\ Deliver(i)

\* the event loop runs a deferred _reassemble_message
RunReassemble ==
    /\ immediates # <<>>
    /\ Head(immediates).task = "reassemble"
    /\ \E r \in { _reassemble_message(accumulators, Head(immediates).message_type,
                                       Head(immediates).message_id) } :
           /\ accumulators' = r.accs
           /\ Observe("_reassemble_message", <<>>, FALSE, r.events)
           /\ thrown' = r.thrown
    /\ immediates' = Tail(immediates)
    /\ UNCHANGED << source_id, message_types, error_listener, batch, tracing,
                    encVars, delivered >>

\* the event loop runs a deferred _reassemble_message under a host whose
\* listener of the event at calls decode_packet(p)
RunReassembleWithListener(at, p) ==
    /\ immediates # <<>>
    /\ Head(immediates).task = "reassemble"
    /\ \E r \in { ReassembleWithListener(source_id, message_types, accumulators,
                                          Head(immediates).message_type,
                                          Head(immediates).message_id, at, p) } :
           /\ accumulators' = r.accs
           /\ Observe("_reassemble_message", p, FALSE, r.events)
           /\ thrown' = r.thrown
           /\ immediates' = Tail(immediates) \o r.sched
    /\ UNCHANGED << source_id, message_types, error_listener, batch, tracing,
                    encVars, delivered >>

\* the host calls decode_packets_batch(packets, batch_size): the first batch
\* is decoded within the call
DecodePacketsBatch(packets, batch_size) ==
    /\ batch = <<>>
    /\ batch' = [packets |-> packets, batch_size |-> batch_size]
    /\ \E r \in { BatchTurn(source_id, message_types, accumulators, packets,
                             batch_size, 0) } :
           /\ accumulators' = r.accs
           /\ immediates' = immediates \o r.sched
           /\ Observe("decode_packets_batch", <<>>, FALSE, r.events)
           /\ thrown' = r.thrown
    /\ UNCHANGED << source_id, message_types, error_listener, tracing, encVars,
                    delivered >>

\* the event loop resumes decode_packets_batch with its next batch
RunBatch ==
    /\ immediates # <<>>
    /\ Head(immediates).task = "batch"
    /\ \E job \in { Head(immediates) } :
       \E r \in { BatchTurn(source_id, message_types, accumulators, job.packets,
                             job.batch_size, job.i) } :
           /\ accumulators' = r.accs
           /\ immediates' = Tail(immediates) \o r.sched
           /\ Observe("decode_packets_batch", <<>>, FALSE, r.events)
           /\ thrown' = r.thrown
    /\ UNCHANGED << source_id, message_types, error_listener, batch, tracing,
                    encVars, delivered >>

\* the host calls reset_message_state(arg)
Reset(arg) ==
    /\ accumulators' = reset_message_state(accumulators, arg)
    /\ Observe("reset_message_state", arg, FALSE, <<>>)
    /\ thrown' = FALSE
    /\ UNCHANGED << source_id, message_types, error_listener, batch, tracing,
                    immediates, encVars, delivered >>

\* the host calls encode_message(message_buffer, message_type)
EncodeMessage(message_buffer, message_type) ==
    /\ budget > 0
    /\ \E r \in { encode_message(enc_message_id, message_buffer, message_type) } :
           /\ enc_ret' = r.ret
           /\ enc_message_id' = r.counter
           /\ immediates' = Append(immediates, r.sched)
           /\ enc_calls' = Append(enc_calls,
                                  [message_type |-> message_type,
                                   is_buffer |-> message_buffer.is_buffer,
                                   message_length |-> Len(message_buffer.bytes),
                                   ret |-> r.ret])
    /\ budget' = budget - 1
    /\ call' = [message_buffer |-> message_buffer, message_type |-> message_type]
    /\ Aside("encode_message")
    /\ UNCHANGED << decVars, tracing, enc_source_id, enc_before, callbacks, genVars,
                    sent, delivered >>

\* the event loop starts or resumes _encode_message_async
RunEncode ==
    /\ immediates # <<>>
    /\ Head(immediates).task = "encode"
    /\ \E job \in { Head(immediates) } :
       \E r \in { EncodeRun(enc_source_id, job, job.fragment_index) } :
           /\ sent' = sent \o r.emitted
           /\ callbacks' = callbacks \o
                  [j \in 1 .. Len(r.called) |->
                      [args |-> r.called[j], at |-> Len(sent) + Len(r.emitted)]]
           /\ immediates' = Tail(immediates) \o
                  (IF r.resume = <<>> THEN <<>>
                   ELSE << [job EXCEPT !.fragment_index = r.resume[1]] >>)
    /\ Aside("_encode_message_async")
    /\ UNCHANGED << decVars, tracing, enc_source_id, enc_message_id, budget,
                    call, enc_ret, enc_calls, enc_before, genVars, delivered >>

\* the event loop runs the deferred emit('error') of encode_message
RunEmitError ==
    /\ immediates # <<>>
    /\ Head(immediates).task = "emit_error"
    /\ sent' = Append(sent, [kind |-> "error", msg |-> Head(immediates).msg])
    /\ immediates' = Tail(immediates)
    /\ Aside("emit_error")
    /\ UNCHANGED << decVars, tracing, enc_source_id, enc_message_id, budget,
                    call, enc_ret, enc_calls, enc_before, callbacks, genVars,
                    delivered >>

\* a step of the generator API leaves the decoder and the event encoder alone
GenAside(o) ==
    /\ Aside(o)
    /\ UNCHANGED << decVars, tracing, enc_source_id, enc_message_id, budget, call,
                    enc_ret, enc_calls, enc_before, callbacks, sent, delivered >>

\* the host calls packetize(payload_buffer, packet_type) and keeps the
\* generator
Packetize(payload_buffer, packet_type) ==
    /\ Len(gens) < MaxGenerators
    /\ gens' = Append(gens, NewGenerator(payload_buffer, packet_type, FALSE))
    /\ GenAside("packetize")
    /\ UNCHANGED << gen_message_id, immediates >>

\* the host calls packetize_all(payload_buffer, packet_type): for await
\* creates the generator and calls its next() within the call
PacketizeAll(payload_buffer, packet_type) ==
    /\ Len(gens) < MaxGenerators
    /\ \E r \in { GenStart(gen_message_id, enc_source_id,
                            NewGenerator(payload_buffer, packet_type, TRUE)) } :
           /\ gens' = Append(gens, r.gen)
           /\ gen_message_id' = r.counter
    /\ GenAside("packetize_all")
    /\ UNCHANGED immediates

\* next() on the generator g: the first one starts the body; a later one
\* continues after the yield, where the body awaits a setImmediate or goes
\* on to the next fragment
Advance(g) ==
    /\ g \in 1 .. Len(gens)
    /\ \/ /\ gens[g].state = "suspendedStart"
          /\ \E r \in { GenStart(gen_message_id, enc_source_id, gens[g]) } :
                 /\ gens' = [gens EXCEPT ![g] = r.gen]
                 /\ gen_message_id' = r.counter
          /\ UNCHANGED immediates
       \/ /\ gens[g].state = "suspendedYield"
          /\ Yields(gens[g].fragment_index, gens[g].fragment_count)
          /\ gens' = [gens EXCEPT ![g].state = "awaiting"]
          /\ immediates' = Append(immediates, [task |-> "generator", gen |-> g])
          /\ UNCHANGED gen_message_id
       \/ /\ gens[g].state = "suspendedYield"
          /\ ~Yields(gens[g].fragment_index, gens[g].fragment_count)
          /\ gens' = [gens EXCEPT
                         ![g] = GenLoop(enc_source_id, @, @.fragment_index + 1)]
          /\ UNCHANGED << gen_message_id, immediates >>
    /\ GenAside("next")

\* the event loop resolves the setImmediate a generator awaits
RunGenerator ==
    /\ immediates # <<>>
    /\ Head(immediates).task = "generator"
    /\ gens' = [gens EXCEPT
                   ![Head(immediates).gen] =
                       GenLoop(enc_source_id, @, @.fragment_index + 1)]
    /\ immediates' = Tail(immediates)
    /\ GenAside("packetize")
    /\ UNCHANGED gen_message_id

\* the encoder writes the header of a fragment with an empty payload
WriteHeader ==
    /\ op = "new"
    /\ op' = "write_header"
    /\ pkt' = Header(enc_source_id, call.message_type, call.message_id,
                     call.fragment_index, call.fragment_count)
    /\ ret' = FALSE
    /\ events' = <<>>
    /\ thrown' = FALSE
    /\ UNCHANGED << decVars, accumulators, immediates, tracing, log, encVars,
                    delivered >>

\* the packet just written is passed to decode_packet
DecodeHeader ==
    /\ op = "write_header"
    /\ DecodeStep(pkt)
    /\ UNCHANGED << encVars, delivered >>

(* ------------------------------------------------------------------ *)
(* Specifications                                                     *)
(* ------------------------------------------------------------------ *)
Next ==
    \/ \E p \in Packets : Inject(p)
    \/ RunReassemble
    \/ \E arg \in ResetArgs : Reset(arg)

Spec == Init /\ [][Next]_vars

NextRT ==
    \/ \E b \in EncodeBuffers, t \in EncodeTypes : EncodeMessage(b, t)
    \/ RunEncode
    \/ RunEmitError
    \/ \E i \in Positions : Deliver(i)
    \/ RunReassemble

SpecRT == InitRT /\ [][NextRT]_vars

\* the decoder of Spec under a host without an 'error' listener
SpecBare == InitBare /\ [][Next]_vars

NextEnc ==
    \/ \E c \in EncodeCalls : EncodeMessage(c[1], c[2])
    \/ RunEncode
    \/ RunEmitError

SpecEnc == InitEnc /\ [][NextEnc]_vars

NextStream ==
    \/ \E n \in StreamLengths :
          EncodeMessage([is_buffer |-> TRUE, bytes |-> Pattern(n)], StreamType)
    \/ RunEncode
    \/ \E i \in StreamPositions : DeliverInOrder(i)
    \/ RunReassemble

SpecStream == InitStream /\ [][NextStream]_vars

NextEncFair ==
    \/ \E c \in FairCalls : EncodeMessage(c[1], c[2])
    \/ RunEncode
    \/ RunEmitError

\* the encoder alone under an event loop that runs every setImmediate
\* callback queued
SpecEncFair ==
    InitEnc /\ [][NextEncFair]_vars /\ WF_vars(RunEncode) /\ WF_vars(RunEmitError)

NextReentrant ==
    \/ \E p \in TracePackets : Inject(p)
    \/ RunReassemble
    \/ \E at \in {"message", "message:complete"}, p \in TracePackets :
          RunReassembleWithListener(at, p)

\* traced runs under a host whose listeners may call decode_packet
SpecReentrant == InitTrace /\ [][NextReentrant]_vars

NextHeader ==
    \/ WriteHeader
    \/ DecodeHeader

\* one header written by the encoder and read by the decoder
SpecHeader == InitHeader /\ [][NextHeader]_vars

NextGen ==
    \/ \E c \in GenCalls : Packetize(c[1], c[2])
    \/ \E c \in GenCalls : PacketizeAll(c[1], c[2])
    \/ \E g \in 1 .. MaxGenerators : Advance(g)
    \/ RunGenerator

\* a host that uses the generator API
SpecGen == InitGen /\ [][NextGen]_vars

NextBatch ==
    \/ \E ps \in BatchLists, n \in BatchSizes : DecodePacketsBatch(ps, n)
    \/ RunBatch
    \/ RunReassemble

SpecBatch == InitBatch /\ [][NextBatch]_vars

NextTrace ==
    \/ \E p \in TracePackets : Inject(p)
    \/ RunReassemble

SpecTrace == InitTrace /\ [][NextTrace]_vars

\* the host of a traced run calls reset_message_state(arg)
ResetTraced(arg) ==
    /\ Len(log) < MaxSteps
    /\ Reset(arg)

NextResetTrace ==
    \/ \E p \in TracePackets : Inject(p)
    \/ RunReassemble
    \/ \E arg \in ResetArgs : ResetTraced(arg)

\* traced runs of chosen packets with resets in between
SpecResetTrace == InitTrace /\ [][NextResetTrace]_vars

\* the event loop runs every setImmediate callback that is queued
SpecTraceFair == SpecTrace /\ WF_vars(RunReassemble)

(* ------------------------------------------------------------------ *)
(* Reading the histories                                              *)
(* ------------------------------------------------------------------ *)
RECURSIVE Flat(_)
\* the concatenation of a sequence of sequences
Flat(ss) == IF ss = <<>> THEN <<>> ELSE Head(ss) \o Flat(Tail(ss))

\* every event the decoder has emitted, in order (traced runs)
Emitted == Flat([i \in 1 .. Len(log) |-> log[i].events])

IsMessage(e) == e.kind = "message"

IsPacket(e) == e.kind = "packet"

\* the packets the encoder has emitted, in order
SentPackets == SelectSeq(sent, IsPacket)

\* the bytes after the header of a packet of at least twelve bytes
PayloadOf(p) == SubSeq(p, HEADER_SIZE + 1, Len(p))

\* the least c >= 1 with c * MAX_PAYLOAD_SIZE >= n
FragmentsNeeded(n) ==
    CHOOSE c \in 1 .. (n + 1) :
        /\ c * MAX_PAYLOAD_SIZE >= n
        /\ c > 1 => (c - 1) * MAX_PAYLOAD_SIZE < n

\* the call of encode_message succeeded, the encoder has finished, every
\* packet has been delivered and no callback is waiting
RoundTripDone ==
    /\ enc_ret # <<>>
    /\ immediates = <<>>
    /\ sent # <<>>
    /\ delivered = { i \in 1 .. Len(sent) : sent[i].kind = "packet" }

(* ------------------------------------------------------------------ *)
(* Properties                                                         *)
(* ------------------------------------------------------------------ *)

\* C1: when all packets of one encode_message call have been delivered once
\* each, in any order, to a fresh decoder with the same source id, the
\* decoder has emitted exactly one 'message' event; its buffer is the
\* original payload, its fragment_count the number of packets and its
\* total_bytes the payload length.
C1_RoundTrip ==
    RoundTripDone =>
        LET msgs == SelectSeq(Emitted, IsMessage)
        IN  /\ Len(msgs) = 1
            /\ msgs[1].buffer = call.message_buffer.bytes
            /\ msgs[1].message_type = call.message_type
            /\ msgs[1].fragment_count = Len(SentPackets)
            /\ msgs[1].total_bytes = Len(call.message_buffer.bytes)

\* a round trip of a five-fragment message whose last fragment arrived first
C1_Witness ==
    /\ RoundTripDone
    /\ Len(call.message_buffer.bytes) = 5 * MAX_PAYLOAD_SIZE
    /\ log[1].events[2].fragment_index = 4

\* C2: encode_message on n bytes emits max(1, ceil(n / MAX_PAYLOAD_SIZE))
\* packets; packet i carries fragment_index i, that fragment_count and the
\* bytes [i * MAX_PAYLOAD_SIZE, min((i + 1) * MAX_PAYLOAD_SIZE, n)); all but
\* the last carry MAX_PAYLOAD_SIZE bytes and the payloads concatenated in
\* index order are the input.
C2_Fragmentation ==
    enc_ret # <<>> =>
        LET bytes == call.message_buffer.bytes
            n == Len(bytes)
            c == FragmentsNeeded(n)
            pk == SentPackets
            done == \E i \in 1 .. Len(sent) : sent[i].kind = "message:encoded"
        IN  /\ Len(pk) <= c
            /\ \A i \in 1 .. Len(pk) :
                  /\ Len(pk[i].packet) >= HEADER_SIZE
                  /\ pk[i].packet[5] + 256 * pk[i].packet[6] = i - 1
                  /\ pk[i].packet[7] + 256 * pk[i].packet[8] = c
                  /\ PayloadOf(pk[i].packet) =
                        [j \in 1 .. (Min(i * MAX_PAYLOAD_SIZE, n) - (i - 1) * MAX_PAYLOAD_SIZE)
                            |-> bytes[(i - 1) * MAX_PAYLOAD_SIZE + j]]
                  /\ i < c => Len(PayloadOf(pk[i].packet)) = MAX_PAYLOAD_SIZE
            /\ done =>
                  /\ Len(pk) = c
                  /\ Flat([i \in 1 .. Len(pk) |-> PayloadOf(pk[i].packet)]) = bytes

\* a finished encoding of five fragments whose last one is short
C2_Witness ==
    /\ enc_ret # <<>>
    /\ \E i \in 1 .. Len(sent) : sent[i].kind = "message:encoded"
    /\ Len(SentPackets) = 5
    /\ Len(PayloadOf(SentPackets[5].packet)) = MAX_PAYLOAD_SIZE - 1

\* the events of message type t among the emitted ones ('error' has no type)
EventsOfType(t) ==
    SelectSeq(Emitted, LAMBDA e : e.kind # "error" /\ e.message_type = t)

\* s[i] continues the accumulator lifetime that s[i - 1] belongs to
SameLifetime(s, i) ==
    /\ i > 1
    /\ s[i - 1].kind \in {"message:start", "fragment:received"}
    /\ s[i - 1].message_id = s[i].message_id

\* the events of one message type follow, lifetime after lifetime, the order
\* start, received 1, received 2, ..., then nothing, or message and
\* message:complete, or message:incomplete
LifetimeOrder(s) ==
    \A i \in 1 .. Len(s) :
        /\ (i = 1) => s[i].kind = "message:start"
        /\ (i > 1 /\ s[i - 1].kind \in {"message:complete", "message:incomplete"})
              => s[i].kind = "message:start"
        /\ s[i].kind = "fragment:received" =>
              /\ SameLifetime(s, i)
              /\ s[i].fragments_received =
                    IF s[i - 1].kind = "message:start" THEN 1
                    ELSE s[i - 1].fragments_received + 1
        /\ s[i].kind = "message" =>
              /\ SameLifetime(s, i)
              /\ i < Len(s)
              /\ s[i + 1].kind = "message:complete"
        /\ s[i].kind = "message:complete" =>
              /\ i > 1
              /\ s[i - 1].kind = "message"
              /\ s[i - 1].message_id = s[i].message_id
        /\ s[i].kind = "message:incomplete" => SameLifetime(s, i)

\* C3: for every accumulator lifetime the decoder emits message:start first,
\* then fragment:received with fragments_received 1, 2, 3, ..., then at most
\* one terminal outcome: 'message' immediately followed by message:complete,
\* or message:incomplete; no fragment:received of the lifetime comes before
\* its start or after its outcome.
C3_EventOrder ==
    /\ \A t \in {0, 1} : LifetimeOrder(EventsOfType(t))
    /\ \A j \in 1 .. Len(Emitted) :
          Emitted[j].kind = "message" =>
              /\ j < Len(Emitted)
              /\ Emitted[j + 1].kind = "message:complete"
              /\ Emitted[j + 1].message_type = Emitted[j].message_type
              /\ Emitted[j + 1].message_id = Emitted[j].message_id

\* a run with a lifetime that ended in message:incomplete after one fragment,
\* a two-fragment lifetime that ended in 'message', and a lifetime that an
\* error ended without an outcome
C3_Witness ==
    /\ \E j \in 1 .. Len(Emitted) : Emitted[j].kind = "message:incomplete"
    /\ \E j \in 1 .. Len(Emitted) :
          Emitted[j].kind = "message" /\ Emitted[j].fragment_count = 2
    /\ \E j \in 1 .. Len(Emitted) :
          Emitted[j].kind = "error" /\ Emitted[j].msg = "Reassembly failed"

(* ------------------------------------------------------------------ *)
(* Reading a packet, for the properties                               *)
(* ------------------------------------------------------------------ *)
TypeOf(p) == p[2] % 64

IdOf(p) == p[3] + 256 * p[4]

IndexOf(p) == p[5] + 256 * p[6]

CountOf(p) == p[7] + 256 * p[8]

\* p passes the magic, length, version, source, type and validity checks
ValidFragment(p) ==
    /\ Len(p) >= HEADER_SIZE
    /\ p[1] = MAGIC_BYTE
    /\ p[2] \div 64 = VERSION
    /\ p[9] + 256 * p[10] + 65536 * p[11] + 16777216 * p[12] = source_id
    /\ message_types # <<>> => TypeOf(p) \in message_types[1]
    /\ CountOf(p) >= 1
    /\ IndexOf(p) < CountOf(p)
    /\ Len(p) - HEADER_SIZE <= MAX_PAYLOAD_SIZE

\* the forward circular distance from message id b to message id a
Distance(a, b) == (a - b + 65536) % 65536

\* the step taken is decode_packet on a valid fragment whose message id is
\* newer than the id of its type's accumulator
Preempting ==
    /\ op' = "decode_packet"
    /\ ValidFragment(pkt')
    /\ Has(accumulators, TypeOf(pkt'))
    /\ Distance(IdOf(pkt'), accumulators[TypeOf(pkt')].message_id) \in 1 .. 32767

\* what decode_packet does with a preempting fragment
PreemptEffect ==
    LET t == TypeOf(pkt')
        old == accumulators[t]
        fresh == [message_id |-> IdOf(pkt'),
                  fragment_count |-> CountOf(pkt'),
                  fragments_received |-> 1,
                  fragments |-> Put(EmptyMap, IndexOf(pkt'), PayloadOf(pkt')),
                  message_len |-> Len(PayloadOf(pkt')),
                  valid |-> TRUE]
    IN  /\ ret' = TRUE
        /\ Len(events') >= 3
        /\ events'[1] = [kind |-> "message:incomplete", message_type |-> t,
                         message_id |-> old.message_id,
                         fragments_received |-> old.fragments_received,
                         fragment_count |-> old.fragment_count]
        /\ events'[2] = [kind |-> "message:start", message_type |-> t,
                         message_id |-> IdOf(pkt'),
                         fragment_count |-> CountOf(pkt')]
        /\ events'[3] = [kind |-> "fragment:received", message_type |-> t,
                         message_id |-> IdOf(pkt'),
                         fragment_index |-> IndexOf(pkt'),
                         fragment_count |-> CountOf(pkt'),
                         fragments_received |-> 1]
        /\ \A j \in 2 .. Len(events') : events'[j].kind # "message:incomplete"
        /\ \/ /\ Has(accumulators', t)
              /\ accumulators'[t] = fresh
              /\ Len(events') = 3
           \/ /\ ~Has(accumulators', t)
              /\ Len(events') = 5
              /\ events'[4].kind = "message"
              /\ events'[4].message_id = IdOf(pkt')
              /\ events'[4].buffer = PayloadOf(pkt')

\* a step that leaves the decoder as it is and shows nothing
Ignored ==
    /\ ret' = FALSE
    /\ events' = <<>>
    /\ accumulators' = accumulators
    /\ immediates' = immediates

\* in every decode_packet step of a traced run that emits message:incomplete,
\* it is emitted once, first, for an id older than the packet's, and is
\* followed by message:start for the packet's id and count
PreemptionEvents ==
    \A i \in 1 .. Len(log) :
        (\E j \in 1 .. Len(log[i].events) :
            log[i].events[j].kind = "message:incomplete")
        => /\ log[i].op = "decode_packet"
           /\ Len(log[i].events) >= 3
           /\ log[i].events[1].kind = "message:incomplete"
           /\ Distance(IdOf(log[i].packet), log[i].events[1].message_id) \in 1 .. 32767
           /\ \A j \in 2 .. Len(log[i].events) :
                 log[i].events[j].kind # "message:incomplete"
           /\ log[i].events[2] = StartEvent(TypeOf(log[i].packet), IdOf(log[i].packet),
                                            CountOf(log[i].packet))

\* once message:incomplete has been emitted for a message, no 'message' is
\* emitted for that type and message id
NeverCompletedAfterwards ==
    \A j \in 1 .. Len(Emitted) : \A k \in (j + 1) .. Len(Emitted) :
        (Emitted[j].kind = "message:incomplete" /\ Emitted[k].kind = "message"
         /\ Emitted[k].message_type = Emitted[j].message_type)
            => Emitted[k].message_id # Emitted[j].message_id

\* C4: a valid fragment with a newer message id than its type's accumulator
\* makes decode_packet emit one message:incomplete for the old message, then
\* message:start for the new one, and accumulate the new message in a fresh
\* accumulator; the old message is never completed afterwards.
C4_Preemption == PreemptionEvents /\ NeverCompletedAfterwards

\* the part of C4 about the preempting call itself: its events, its return
\* value and the fresh accumulator
C4_PreemptStep == [][Preempting => PreemptEffect]_vars

\* C5: a valid fragment whose message id is older than the id of its type's
\* accumulator makes decode_packet return false, emit nothing and leave
\* every accumulator as it was.
C5_Stale ==
    [][(/\ op' = "decode_packet"
        /\ ValidFragment(pkt')
        /\ Has(accumulators, TypeOf(pkt'))
        /\ Distance(accumulators[TypeOf(pkt')].message_id, IdOf(pkt')) \in 1 .. 32767)
       => Ignored]_vars

\* a fragment of message 65535 was ignored while message 0, with a fragment
\* stored, was being assembled for its type
C5_Witness ==
    /\ op = "decode_packet"
    /\ ValidFragment(pkt)
    /\ IdOf(pkt) = 65535
    /\ Has(accumulators, TypeOf(pkt))
    /\ accumulators[TypeOf(pkt)].message_id = 0
    /\ accumulators[TypeOf(pkt)].fragments_received = 1
    /\ ~ret
    /\ events = <<>>

\* C6: a fragment's id a counts as newer than the accumulator's id b exactly
\* when (a - b) mod 65536 is in 1 .. 32767, and as older exactly when
\* (b - a) mod 65536 is: id 0 preempts an accumulator for 65535, and id
\* 65535 is ignored by an accumulator for 0.
C6_Wraparound ==
    [][(/\ op' = "decode_packet"
        /\ ValidFragment(pkt')
        /\ Has(accumulators, TypeOf(pkt')))
       => LET a == IdOf(pkt')
              b == accumulators[TypeOf(pkt')].message_id
          IN  /\ (Distance(a, b) \in 1 .. 32767) <=>
                    (events' # <<>> /\ events'[1].kind = "message:incomplete")
              /\ (Distance(b, a) \in 1 .. 32767) <=> (events' = <<>> /\ ~ret')
              /\ (a = 0 /\ b = 65535) =>
                    (events' # <<>> /\ events'[1].kind = "message:incomplete")
              /\ (a = 65535 /\ b = 0) => (events' = <<>> /\ ~ret')]_vars

\* a fragment of message 0 has just preempted message 65535
C6_Witness ==
    /\ op = "decode_packet"
    /\ ValidFragment(pkt)
    /\ IdOf(pkt) = 0
    /\ events # <<>>
    /\ events[1].kind = "message:incomplete"
    /\ events[1].message_id = 65535

\* C7: delivering a valid fragment twice in a row yields one 'Duplicate
\* fragment' error, on the second delivery, which changes no accumulator and
\* emits nothing else.
C7_DuplicateRejected ==
    [][(/\ op = "decode_packet"
        /\ ret
        /\ op' = "decode_packet"
        /\ pkt' = pkt
        /\ ValidFragment(pkt))
       => /\ events' = << ErrorEvent("Duplicate fragment") >>
          /\ ~ret'
          /\ accumulators' = accumulators]_vars

\* the packets decoded so far in a traced run
Decoded == { i \in 1 .. Len(log) : log[i].op = "decode_packet" }

\* all decoded fragments with the same type and message id are fragments of
\* one message: they agree on the count and, index by index, on the payload
OneMessagePerId ==
    \A i, j \in Decoded :
        (TypeOf(log[i].packet) = TypeOf(log[j].packet)
         /\ IdOf(log[i].packet) = IdOf(log[j].packet))
        => /\ CountOf(log[i].packet) = CountOf(log[j].packet)
           /\ IndexOf(log[i].packet) = IndexOf(log[j].packet)
                 => log[i].packet = log[j].packet

\* the number of emitted events of kind k for type t and message id m
Count(k, t, m) ==
    Cardinality({ j \in 1 .. Len(Emitted) :
                    /\ Emitted[j].kind = k
                    /\ Emitted[j].message_type = t
                    /\ Emitted[j].message_id = m })

\* C8: when all fragments sharing a type and message id belong to one
\* message, the decoder emits message:start, 'message' and message:complete
\* at most once for it, also when fragments are delivered again after it
\* has completed.
C8_ExactlyOnce ==
    OneMessagePerId =>
        \A i \in Decoded :
            \A k \in {"message:start", "message", "message:complete"} :
                Count(k, TypeOf(log[i].packet), IdOf(log[i].packet)) <= 1

\* C9: a decode_packet call on a packet of one type leaves the accumulators
\* of every other type as they were, and a message of type 1 interleaved
\* with traffic of type 0 completes with its own payload.
C9_TypeIsolation ==
    [][op' = "decode_packet" =>
         /\ \A b \in (DOMAIN accumulators) \cup (DOMAIN accumulators') :
               (Len(pkt') < 2 \/ b # TypeOf(pkt')) =>
                   /\ Has(accumulators, b)
                   /\ Has(accumulators', b)
                   /\ accumulators'[b] = accumulators[b]
         /\ \A j \in 1 .. Len(events') :
               (events'[j].kind = "message" /\ events'[j].message_type = 1) =>
                   events'[j].buffer = <<9, 9>>]_vars

\* a message of type 0 has just completed while a message of type 1 had one
\* fragment stored
C9_Witness ==
    /\ op = "decode_packet"
    /\ ValidFragment(pkt)
    /\ TypeOf(pkt) = 0
    /\ \E j \in 1 .. Len(events) : events[j].kind = "message"
    /\ Has(accumulators, 1)
    /\ accumulators[1].fragments_received = 1

\* C10 as stated: every packet whose type field is not in the decoder's
\* message_types makes decode_packet return false with no event, no 'error'
\* either, and no change of the accumulators.
C10_FilteredAnyPacket ==
    [][(/\ op' = "decode_packet"
        /\ Len(pkt') >= 2
        /\ message_types # <<>>
        /\ TypeOf(pkt') \notin message_types[1])
       => Ignored]_vars

\* C10: every packet that has the magic byte, at least twelve bytes and the
\* supported version, and whose type field is not in the decoder's
\* message_types, makes decode_packet return false with no event and no
\* change of the accumulators.
C10_Filtered ==
    [][(/\ op' = "decode_packet"
        /\ Len(pkt') >= HEADER_SIZE
        /\ pkt'[1] = MAGIC_BYTE
        /\ pkt'[2] \div 64 = VERSION
        /\ message_types # <<>>
        /\ TypeOf(pkt') \notin message_types[1])
       => Ignored]_vars

\* a well-formed fragment of type 2 from the right source was dropped by a
\* decoder that accepts types 0 and 1, while a type 0 message was in flight
C10_Witness ==
    /\ op = "decode_packet"
    /\ message_types = << {0, 1} >>
    /\ Len(pkt) >= HEADER_SIZE
    /\ pkt[1] = MAGIC_BYTE
    /\ pkt[2] \div 64 = VERSION
    /\ TypeOf(pkt) = 2
    /\ ReadUInt32LE(pkt, 8) = source_id
    /\ CountOf(pkt) = 1
    /\ ~ret
    /\ events = <<>>
    /\ Has(accumulators, 0)

\* C11: a packet that has the magic byte, at least twelve bytes and the
\* supported version but another source_id than the decoder's is ignored
\* whatever its other fields are: decode_packet returns false, emits no
\* event and changes no accumulator.
C11_SourceFiltered ==
    [][(/\ op' = "decode_packet"
        /\ Len(pkt') >= HEADER_SIZE
        /\ pkt'[1] = MAGIC_BYTE
        /\ pkt'[2] \div 64 = VERSION
        /\ ReadUInt32LE(pkt', 8) # source_id)
       => Ignored]_vars

\* a packet of another source with a filtered type, fragment_index 1 of
\* fragment_count 0 and an oversized payload was ignored while a message of
\* type 0 was in flight
C11_Witness ==
    /\ op = "decode_packet"
    /\ Len(pkt) > HEADER_SIZE + MAX_PAYLOAD_SIZE
    /\ pkt[1] = MAGIC_BYTE
    /\ pkt[2] \div 64 = VERSION
    /\ ReadUInt32LE(pkt, 8) # source_id
    /\ CountOf(pkt) = 0
    /\ IndexOf(pkt) = 1
    /\ ~ret
    /\ events = <<>>
    /\ Has(accumulators, 0)

\* p passes the magic, length, version, source and type checks
PassesFilters(p) ==
    /\ Len(p) >= HEADER_SIZE
    /\ p[1] = MAGIC_BYTE
    /\ p[2] \div 64 = VERSION
    /\ ReadUInt32LE(p, 8) = source_id
    /\ message_types # <<>> => TypeOf(p) \in message_types[1]

\* C12: a packet that passes the magic, length, version, source and type
\* checks but has fragment_index >= fragment_count, fragment_count = 0 or a
\* payload longer than MAX_PAYLOAD_SIZE makes decode_packet emit exactly one
\* 'Invalid fragment' error and return false; no accumulator is created,
\* replaced or modified and no callback is scheduled.
C12_InvalidFragment ==
    [][(/\ op' = "decode_packet"
        /\ PassesFilters(pkt')
        /\ \/ IndexOf(pkt') >= CountOf(pkt')
           \/ CountOf(pkt') = 0
           \/ Len(pkt') - HEADER_SIZE > MAX_PAYLOAD_SIZE)
       => /\ events' = << ErrorEvent("Invalid fragment") >>
          /\ ~ret'
          /\ accumulators' = accumulators
          /\ immediates' = immediates]_vars

\* a fragment with fragment_index = fragment_count = 1 was rejected by a
\* decoder with no accumulator, which still has none
C12_Witness ==
    /\ op = "decode_packet"
    /\ PassesFilters(pkt)
    /\ IndexOf(pkt) = 1
    /\ CountOf(pkt) = 1
    /\ events = << ErrorEvent("Invalid fragment") >>
    /\ ~ret
    /\ accumulators = EmptyMap

\* the indexes below its fragment_count that an accumulator has no fragment for
MissingIndexes(accumulator) ==
    { i \in 0 .. accumulator.fragment_count - 1 : ~Has(accumulator.fragments, i) }

\* the step is a decode_packet call that accepted fragment i of message m of
\* type t
Accepting(t, m, i) ==
    /\ op' = "decode_packet"
    /\ ret'
    /\ TypeOf(pkt') = t
    /\ IdOf(pkt') = m
    /\ IndexOf(pkt') = i

\* C13: 'message' for a type and message id with fragment_count c is emitted
\* only if a fragment for every index 0 .. c-1 of it was accepted; while some
\* index of an accumulator's message has not been delivered, no 'message' or
\* message:complete is emitted for it and the accumulator stays in the
\* decoder, with fragments_received < fragment_count, until it is preempted
\* or reset.
C13_NoCompletionWithMissing ==
    [][/\ \A j \in 1 .. Len(events') :
             events'[j].kind = "message" =>
                 \A i \in 0 .. events'[j].fragment_count - 1 :
                     \/ /\ Has(accumulators, events'[j].message_type)
                        /\ accumulators[events'[j].message_type].message_id
                              = events'[j].message_id
                        /\ Has(accumulators[events'[j].message_type].fragments, i)
                     \/ Accepting(events'[j].message_type, events'[j].message_id, i)
       /\ \A t \in DOMAIN accumulators :
             LET acc == accumulators[t]
                 lacking == { i \in MissingIndexes(acc) :
                                ~Accepting(t, acc.message_id, i) }
             IN  lacking # {} =>
                   /\ \A j \in 1 .. Len(events') :
                         (/\ events'[j].kind \in {"message", "message:complete"}
                          /\ events'[j].message_type = t)
                         => events'[j].message_id # acc.message_id
                   /\ \/ op' = "reset_message_state"
                      \/ \E j \in 1 .. Len(events') :
                            events'[j] = IncompleteEvent(t, acc)
                      \/ /\ Has(accumulators', t)
                         /\ accumulators'[t].message_id = acc.message_id
                         /\ accumulators'[t].fragments_received
                               < accumulators'[t].fragment_count]_vars

(* ------------------------------------------------------------------ *)
(* The encoder alone                                                  *)
(* ------------------------------------------------------------------ *)
\* the calls of the run that returned a message id, in call order
Successes == SelectSeq(enc_calls, LAMBDA c : c.ret # <<>>)

\* the calls of the run that returned null
Failures == SelectSeq(enc_calls, LAMBDA c : c.ret = <<>>)

\* the encodings that have been started and have not finished
Running == SelectSeq(immediates, LAMBDA task : task.task = "encode")

\* C14: a fresh encoder starts at message id 0, and the k-th successful
\* encode_message call since construction returns (k - 1) mod 65536: each
\* successful call returns the counter and increments it once, 65535 is
\* followed by 0, whatever the message sizes, the failed calls in between
\* and the encodings still emitting packets.
C14_Counter ==
    /\ enc_calls = <<>> /\ enc_before = 0 => enc_message_id = 0
    /\ \A k \in 1 .. Len(Successes) :
          Successes[k].ret = << (enc_before + k - 1) % 65536 >>
    /\ enc_message_id = (enc_before + Len(Successes)) % 65536

\* an encoder at 65535 has returned 65535, 0 and 1 to three calls in a row,
\* the last of them made while the first two encodings were still running
C14_Witness ==
    /\ op = "encode_message"
    /\ Len(Successes) = 3
    /\ Successes[1].ret = << 65535 >>
    /\ Successes[2].ret = << 0 >>
    /\ Successes[3].ret = << 1 >>
    /\ Len(Running) = 3
    /\ Successes[1].message_length # Successes[2].message_length

\* the arguments of a recorded call are among those the claim lists: a type
\* outside 0 .. 63, a payload that is no Buffer, or one that needs more
\* fragments than encode_message accepts
BadArguments(c) ==
    \/ c.message_type < 0
    \/ c.message_type > 63
    \/ ~c.is_buffer
    \/ FragmentsNeeded(c.message_length) > ENCODE_FRAGMENT_LIMIT

\* the events of kind k the encoder has emitted
SentOfKind(k) == SelectSeq(sent, LAMBDA e : e.kind = k)

\* the deferred emit('error') callbacks that are waiting
PendingErrors == SelectSeq(immediates, LAMBDA task : task.task = "emit_error")

\* C15: an encode_message call with a message type outside 0 .. 63, a
\* non-Buffer payload or a payload needing too many fragments returns null
\* and causes exactly one 'error' event and no 'packet' or message:encoded
\* event; it consumes no message id, so the valid calls get the ids they
\* would have got without the failed calls.
C15_EncoderErrors ==
    /\ \A k \in 1 .. Len(enc_calls) :
          BadArguments(enc_calls[k]) <=> enc_calls[k].ret = <<>>
    /\ Len(SentOfKind("error")) + Len(PendingErrors) = Len(Failures)
    /\ \A k \in 1 .. Len(enc_calls) :
          enc_calls[k].ret # <<>> =>
              enc_calls[k].ret =
                  << (enc_before
                      + Cardinality({ j \in 1 .. k - 1 : enc_calls[j].ret # <<>> }))
                     % 65536 >>
    /\ enc_message_id = (enc_before + Len(enc_calls) - Len(Failures)) % 65536
    /\ \A i \in 1 .. Len(sent) :
          sent[i].kind \in {"packet", "message:encoded"} =>
              \E k \in 1 .. Len(Successes) :
                  /\ Successes[k].ret = << sent[i].message_id >>
                  /\ Successes[k].message_type = sent[i].message_type
    /\ Len(SentOfKind("message:encoded")) + Len(Running) = Len(Successes)

\* a call with a payload of too many fragments, made between two valid calls
\* on a fresh encoder, has left them the ids 0 and 1; everything has been
\* emitted, one 'error' among it
C15_Witness ==
    /\ Len(enc_calls) = 3
    /\ enc_calls[1].ret = << 0 >>
    /\ enc_calls[2].ret = <<>>
    /\ enc_calls[2].message_length > ENCODE_FRAGMENT_LIMIT * MAX_PAYLOAD_SIZE
    /\ enc_calls[3].ret = << 1 >>
    /\ immediates = <<>>
    /\ Len(SentOfKind("error")) = 1

\* the events the encoder has emitted for message id m ('error' has no id)
EventsOfMessage(m) ==
    SelectSeq(sent, LAMBDA e : e.kind # "error" /\ e.message_id = m)

\* C16: for every successful encode_message call the encoder emits the
\* 'packet' events of the message with fragment_index 0, 1, ...,
\* fragment_count - 1 in this order, each once, and after the last of them
\* exactly one message:encoded event with the message id, the type, the
\* fragment count and the byte count.
C16_EncoderOrder ==
    \A k \in 1 .. Len(Successes) :
        LET c == FragmentsNeeded(Successes[k].message_length)
            m == Successes[k].ret[1]
            s == EventsOfMessage(m)
        IN  /\ Len(s) <= c + 1
            /\ \A i \in 1 .. Len(s) :
                  IF i <= c
                  THEN /\ s[i].kind = "packet"
                       /\ s[i].fragment_index = i - 1
                       /\ s[i].fragment_count = c
                       /\ IndexOf(s[i].packet) = i - 1
                       /\ CountOf(s[i].packet) = c
                       /\ IdOf(s[i].packet) = m
                  ELSE s[i] = [kind |-> "message:encoded",
                               message_id |-> m,
                               message_type |-> Successes[k].message_type,
                               fragment_count |-> c,
                               total_bytes |-> Successes[k].message_length]
            /\ (\A j \in 1 .. Len(Running) : Running[j].message_id # m)
                  => Len(s) = c + 1

\* three encodings have finished whose packets were emitted interleaved: a
\* packet of another message lies between two packets of one message
C16_Witness ==
    /\ immediates = <<>>
    /\ Len(Successes) = 3
    /\ \E i, j, k \in 1 .. Len(sent) :
          /\ i < j
          /\ j < k
          /\ sent[i].kind = "packet"
          /\ sent[j].kind = "packet"
          /\ sent[k].kind = "packet"
          /\ sent[i].message_id = sent[k].message_id
          /\ sent[i].message_id # sent[j].message_id

\* C17: encode_message on a zero-length Buffer consumes one message id and
\* emits exactly one packet, of exactly 12 bytes, with fragment_index 0 and
\* fragment_count 1, then message:encoded with fragment_count 1 and
\* total_bytes 0; the packet delivered to a decoder with the same source id
\* yields 'message' with a zero-length buffer.
C17_EmptyInput ==
    (enc_ret # <<>> /\ call.message_buffer.bytes = <<>>) =>
        /\ enc_ret = << 0 >>
        /\ enc_message_id = 1
        /\ Len(sent) <= 2
        /\ Len(sent) >= 1 =>
              /\ sent[1].kind = "packet"
              /\ Len(sent[1].packet) = HEADER_SIZE
              /\ IndexOf(sent[1].packet) = 0
              /\ CountOf(sent[1].packet) = 1
              /\ sent[1].fragment_index = 0
              /\ sent[1].fragment_count = 1
              /\ sent[1].fragment_size = 0
        /\ Len(sent) = 2 =>
              sent[2] = [kind |-> "message:encoded",
                         message_id |-> 0,
                         message_type |-> call.message_type,
                         fragment_count |-> 1,
                         total_bytes |-> 0]
        /\ immediates = <<>> => Len(sent) = 2
        /\ delivered # {} =>
              SelectSeq(Emitted, IsMessage) =
                  << [kind |-> "message",
                      buffer |-> <<>>,
                      message_type |-> call.message_type,
                      message_id |-> 0,
                      fragment_count |-> 1,
                      total_bytes |-> 0] >>

\* the one packet of an empty message of type 63 has been delivered and the
\* decoder has emitted 'message' for it
C17_Witness ==
    /\ RoundTripDone
    /\ call.message_buffer.bytes = <<>>
    /\ call.message_type = 63
    /\ delivered = {1}
    /\ \E j \in 1 .. Len(Emitted) :
          Emitted[j].kind = "message" /\ Emitted[j].buffer = <<>>

\* C18: reset_message_state(T) removes the accumulator of type T, also for
\* T = 0, and leaves those of all other types as they were;
\* reset_message_state() removes all accumulators; neither emits an event;
\* a valid fragment of a type that has no accumulator, as after its reset,
\* starts a fresh accumulator with message:start.
C18_Reset ==
    [][/\ op' = "reset_message_state" =>
             /\ events' = <<>>
             /\ pkt' = <<>> => accumulators' = EmptyMap
             /\ pkt' # <<>> =>
                   /\ DOMAIN accumulators' = (DOMAIN accumulators) \ {pkt'[1]}
                   /\ \A b \in DOMAIN accumulators' :
                         accumulators'[b] = accumulators[b]
       /\ (/\ op' = "decode_packet"
           /\ ValidFragment(pkt')
           /\ ~Has(accumulators, TypeOf(pkt')))
          => /\ ret'
             /\ Len(events') >= 2
             /\ events'[1] = StartEvent(TypeOf(pkt'), IdOf(pkt'), CountOf(pkt'))
             /\ events'[2].kind = "fragment:received"
             /\ events'[2].fragments_received = 1
             /\ Has(accumulators', TypeOf(pkt')) =>
                   /\ accumulators'[TypeOf(pkt')].message_id = IdOf(pkt')
                   /\ accumulators'[TypeOf(pkt')].fragments_received = 1
                   /\ DOMAIN accumulators'[TypeOf(pkt')].fragments = {IndexOf(pkt')}]_vars

\* reset_message_state(0) has removed the accumulator of type 0, whose
\* deferred reassembly is still waiting, and has left the one of type 1
C18_Witness ==
    /\ op = "reset_message_state"
    /\ pkt = << 0 >>
    /\ ~Has(accumulators, 0)
    /\ Has(accumulators, 1)
    /\ accumulators[1].fragments_received = 1
    /\ immediates # <<>>
    /\ Head(immediates).message_type = 0

\* the event e is one of the errors that decode_packet reports for a packet
\* it does not accept
RejectionError(e) ==
    /\ e.kind = "error"
    /\ e.msg \in {"Packet too short", "Unsupported version", "Invalid fragment",
                  "Duplicate fragment", "Fragment count exceeded"}

\* C19: decode_packet returns true exactly when the fragment was stored
\* toward a message and fragment:received was emitted during the call; it
\* returns false on every path that ignores the packet or reports an error:
\* wrong magic, too short, bad version, wrong source, filtered type, invalid
\* fragment, stale, duplicate, count exceeded.
C19_ReturnValue ==
    [][op' = "decode_packet" =>
         /\ ret' <=> \E j \in 1 .. Len(events') : events'[j].kind = "fragment:received"
         /\ ret' =>
               \/ /\ Has(accumulators', TypeOf(pkt'))
                  /\ accumulators'[TypeOf(pkt')].message_id = IdOf(pkt')
                  /\ Has(accumulators'[TypeOf(pkt')].fragments, IndexOf(pkt'))
                  /\ accumulators'[TypeOf(pkt')].fragments[IndexOf(pkt')] = PayloadOf(pkt')
               \/ \E j \in 1 .. Len(events') :
                     \/ events'[j].kind = "message"
                     \/ events'[j] = ErrorEvent("Reassembly failed")
         /\ ~ValidFragment(pkt') => ~ret'
         /\ events' = <<>> => ~ret'
         /\ (\E j \in 1 .. Len(events') : RejectionError(events'[j])) => ~ret'
         /\ (/\ ValidFragment(pkt')
             /\ Has(accumulators, TypeOf(pkt'))
             /\ \/ Distance(accumulators[TypeOf(pkt')].message_id, IdOf(pkt')) \in 1 .. 32767
                \/ /\ accumulators[TypeOf(pkt')].message_id = IdOf(pkt')
                   /\ \/ Has(accumulators[TypeOf(pkt')].fragments, IndexOf(pkt'))
                      \/ accumulators[TypeOf(pkt')].fragments_received
                            >= accumulators[TypeOf(pkt')].fragment_count)
            => ~ret']_vars

\* decode_packet has returned false for a fragment that brought an
\* accumulator over its fragment_count
C19_Witness ==
    /\ op = "decode_packet"
    /\ ValidFragment(pkt)
    /\ ~ret
    /\ events = << ErrorEvent("Fragment count exceeded") >>

\* C20: for every input byte sequence and every decoder state decode_packet
\* returns normally and never throws; every rejection is silent or an
\* 'error' notification, also when the host has registered no listener for
\* the decoder's 'error' event.
C20_NoException == op = "decode_packet" => ~thrown

(* ------------------------------------------------------------------ *)
(* Batches                                                            *)
(* ------------------------------------------------------------------ *)
RECURSIVE RunDeferred(_, _)
\* the deferred _reassemble_message callbacks run one after another
RunDeferred(accs, tasks) ==
    IF tasks = <<>>
    THEN [accs |-> accs, events |-> <<>>]
    ELSE LET r == _reassemble_message(accs, Head(tasks).message_type,
                                      Head(tasks).message_id)
             rest == RunDeferred(r.accs, Tail(tasks))
         IN  [accs |-> rest.accs, events |-> r.events \o rest.events]

\* for (const packet of packets) decoder.decode_packet(packet) on a fresh
\* decoder, followed by the callbacks that the loop has deferred
SyncLoop(packets) ==
    LET r == DecodeAll(source_id, message_types, EmptyMap, packets)
        d == RunDeferred(r.accs, r.sched)
    IN  [accs |-> d.accs, events |-> r.events \o d.events]

\* decode_packets_batch has been called and everything it started has run
BatchDone == batch # <<>> /\ immediates = <<>>

\* C21: decode_packets_batch(packets, batch_size) produces the same sequence
\* of events and the same final accumulator table as decode_packet called on
\* each packet in list order in one synchronous loop, for every list and
\* batch_size, also for messages whose reassembly is deferred.
C21_BatchEquivalence ==
    BatchDone =>
        /\ Emitted = SyncLoop(batch.packets).events
        /\ accumulators = SyncLoop(batch.packets).accs

\* the equivalence for lists in which no reassembly is deferred
BatchEquivalenceUndeferred ==
    (BatchDone /\ \A i \in 1 .. Len(log) : log[i].op # "_reassemble_message") =>
        /\ Emitted = SyncLoop(batch.packets).events
        /\ accumulators = SyncLoop(batch.packets).accs

(* ------------------------------------------------------------------ *)
(* Streams of messages                                                *)
(* ------------------------------------------------------------------ *)
\* the 'message' events the decoder has emitted for message id m
MessagesOf(m) ==
    SelectSeq(Emitted, LAMBDA e : e.kind = "message" /\ e.message_id = m)

\* every packet emitted so far has been delivered and nothing is waiting
AllDelivered ==
    /\ immediates = <<>>
    /\ delivered = { i \in 1 .. Len(sent) : sent[i].kind = "packet" }

\* C22: when messages of one type, of any size, are passed to encode_message
\* back to back and every packet is delivered to the decoder in emission
\* order, the decoder never emits message:incomplete and emits 'message'
\* with the right payload for each of them.
C22_BackToBack ==
    /\ \A j \in 1 .. Len(Emitted) : Emitted[j].kind # "message:incomplete"
    /\ AllDelivered =>
          \A k \in 1 .. Len(Successes) :
              /\ Len(MessagesOf(Successes[k].ret[1])) = 1
              /\ MessagesOf(Successes[k].ret[1])[1].buffer
                    = Pattern(Successes[k].message_length)

\* the same for messages of a single fragment
BackToBackSingleFragment ==
    (\A k \in 1 .. Len(Successes) : Successes[k].message_length <= MAX_PAYLOAD_SIZE)
        => C22_BackToBack

(* ------------------------------------------------------------------ *)
(* Encoder callback                                                   *)
(* ------------------------------------------------------------------ *)
\* the n-th argument of a callback invocation (<<>> when not passed)
Arg(c, n) == IF n <= Len(c.args) THEN c.args[n] ELSE <<>>

\* the callback invocations whose first argument is an error
ErrorCallbacks == SelectSeq(callbacks, LAMBDA c : Arg(c, 1) # <<>> /\ Arg(c, 2) = <<>>)

\* the callback invocations that carry the metadata of message id m as
\* argument n
ResultCallbacks(m, n) ==
    SelectSeq(callbacks, LAMBDA c : Arg(c, n) # <<>> /\ Arg(c, n)[1].message_id = m)

\* the position in sent of the last 'packet' event of message id m
LastPacketOf(m) ==
    LET at == { i \in 1 .. Len(sent) : sent[i].kind = "packet" /\ sent[i].message_id = m }
    IN  IF at = {} THEN 0 ELSE CHOOSE i \in at : \A j \in at : j <= i

\* the encoder has nothing left to do
EncoderIdle == immediates = <<>>

\* C23: the callback passed to encode_message is invoked exactly once for
\* every call, with (error, result): for a failed call the first argument is
\* the error; for a successful call the first argument is empty and the
\* second is the message's metadata, after the message's last 'packet' event.
C23_Callback ==
    EncoderIdle =>
        /\ Len(callbacks) = Len(enc_calls)
        /\ Len(ErrorCallbacks) = Len(Failures)
        /\ \A k \in 1 .. Len(Successes) :
              \E r \in { ResultCallbacks(Successes[k].ret[1], 2) } :
                  /\ Len(r) = 1
                  /\ Arg(r[1], 1) = <<>>
                  /\ r[1].at > LastPacketOf(Successes[k].ret[1])

\* what the encoder does: one invocation per successful call, with the
\* metadata as the only argument, after message:encoded; none for a failed call
CallbackOnSuccessOnly ==
    EncoderIdle =>
        /\ Len(callbacks) = Len(Successes)
        /\ \A k \in 1 .. Len(Successes) :
              \E r \in { ResultCallbacks(Successes[k].ret[1], 1) } :
                  /\ Len(r) = 1
                  /\ Len(r[1].args) = 1
                  /\ r[1].at > LastPacketOf(Successes[k].ret[1])
                  /\ sent[r[1].at].kind = "message:encoded"

(* ------------------------------------------------------------------ *)
(* Filter stages                                                      *)
(* ------------------------------------------------------------------ *)
\* the checks of decode_packet, each taken alone, on a packet p and the
\* decoder's state before the call; the field checks read a full header
FailsMagic(p) == Len(p) < 1 \/ p[1] # MAGIC_BYTE

FailsLength(p) == Len(p) < HEADER_SIZE

FailsVersion(p) == (p[2] \div 64) % 4 # VERSION

FailsSource(p) == ReadUInt32LE(p, 8) # source_id

FailsTypeFilter(p) == message_types # <<>> /\ TypeOf(p) \notin message_types[1]

FailsValidity(p) ==
    \/ IndexOf(p) >= CountOf(p)
    \/ CountOf(p) = 0
    \/ Len(p) - HEADER_SIZE > MAX_PAYLOAD_SIZE

\* the message id of p is neither the accumulator's nor newer than it
FailsFreshness(p) ==
    /\ Has(accumulators, TypeOf(p))
    /\ Distance(IdOf(p), accumulators[TypeOf(p)].message_id) \notin 0 .. 32767

FailsDuplicate(p) ==
    /\ Has(accumulators, TypeOf(p))
    /\ accumulators[TypeOf(p)].message_id = IdOf(p)
    /\ Has(accumulators[TypeOf(p)].fragments, IndexOf(p))

\* the first check, in the order of the code, that p fails
FirstFailing(p) ==
    IF FailsMagic(p) THEN "magic"
    ELSE IF FailsLength(p) THEN "length"
    ELSE IF FailsVersion(p) THEN "version"
    ELSE IF FailsSource(p) THEN "source"
    ELSE IF FailsTypeFilter(p) THEN "type"
    ELSE IF FailsValidity(p) THEN "validity"
    ELSE IF FailsFreshness(p) THEN "freshness"
    ELSE IF FailsDuplicate(p) THEN "duplicate"
    ELSE "none"

\* the checks a packet can fail together with others, and what decode_packet
\* emits when the check fails
StageOutcome ==
    [magic |-> <<>>,
     length |-> << ErrorEvent("Packet too short") >>,
     version |-> << ErrorEvent("Unsupported version") >>,
     source |-> <<>>,
     type |-> <<>>,
     validity |-> << ErrorEvent("Invalid fragment") >>,
     duplicate |-> << ErrorEvent("Duplicate fragment") >>]

\* C24: decode_packet applies its checks in the order magic byte, length,
\* version, source_id, type filter, fragment validity, freshness, duplicate:
\* a packet that fails one or several checks gets the outcome of the first
\* check it fails and nothing else, the call returns false and changes no
\* accumulator. (A packet that fails the freshness check fails no later
\* check; its single outcome is silence when its id is older.)
C24_StageOrder ==
    [][op' = "decode_packet" =>
         \E f \in { FirstFailing(pkt') } :
             /\ f \in DOMAIN StageOutcome =>
                   /\ events' = StageOutcome[f]
                   /\ ~ret'
                   /\ accumulators' = accumulators
                   /\ immediates' = immediates
             /\ f = "freshness" =>
                   /\ Len(events') <= 1
                   /\ Distance(accumulators[TypeOf(pkt')].message_id, IdOf(pkt'))
                         \in 1 .. 32767 => events' = <<>>
                   /\ ~ret'
                   /\ accumulators' = accumulators
                   /\ immediates' = immediates
             /\ f = "none" => ret' \/ events' = << ErrorEvent("Fragment count exceeded") >>
    ]_vars

\* a packet of an unsupported version and of a type the decoder filters out
\* was answered with the version error alone
C24_Witness ==
    /\ op = "decode_packet"
    /\ Len(pkt) >= HEADER_SIZE
    /\ ~FailsMagic(pkt)
    /\ FailsVersion(pkt)
    /\ FailsTypeFilter(pkt)
    /\ events = << ErrorEvent("Unsupported version") >>
    /\ ~ret

(* ------------------------------------------------------------------ *)
(* The half-range boundary                                            *)
(* ------------------------------------------------------------------ *)
\* the errors the decoder is documented to emit
DocumentedErrors ==
    { ErrorEvent(m) : m \in {"Packet too short", "Unsupported version",
                             "Invalid fragment", "Duplicate fragment",
                             "Fragment count exceeded", "Reassembly failed"} }

\* C25: a valid fragment whose message id is at forward circular distance
\* 32768 or more from the id of its type's accumulator, 32768 included, is
\* treated as older: decode_packet returns false, emits nothing and leaves
\* the accumulators untouched; and every error the decoder emits is one of
\* packet too short, unsupported version, invalid fragment, duplicate
\* fragment, fragment count exceeded and reassembly failed.
C25_HalfRange ==
    [][/\ (/\ op' = "decode_packet"
            /\ ValidFragment(pkt')
            /\ Has(accumulators, TypeOf(pkt'))
            /\ Distance(IdOf(pkt'), accumulators[TypeOf(pkt')].message_id) >= 32768)
           => /\ ~ret'
              /\ events' = <<>>
              /\ accumulators' = accumulators
       /\ \A j \in 1 .. Len(events') :
              events'[j].kind = "error" => events'[j] \in DocumentedErrors
    ]_vars

\* the same for distances above 32768
OlderBeyondHalfRange ==
    [][(/\ op' = "decode_packet"
        /\ ValidFragment(pkt')
        /\ Has(accumulators, TypeOf(pkt'))
        /\ Distance(IdOf(pkt'), accumulators[TypeOf(pkt')].message_id) > 32768)
       => /\ ~ret'
          /\ events' = <<>>
          /\ accumulators' = accumulators
    ]_vars

(* ------------------------------------------------------------------ *)
(* Accumulator invariants                                             *)
(* ------------------------------------------------------------------ *)
\* every index stored in the accumulator a is below its fragment_count
IndexesInRange(a) ==
    /\ a.fragment_count >= 1
    /\ \A i \in DOMAIN a.fragments : i < a.fragment_count

\* decode_packet keeps the fragment_count of an accumulator it adds to
CountFixed ==
    \A t \in DOMAIN accumulators :
        (/\ op' = "decode_packet"
         /\ Has(accumulators', t)
         /\ accumulators'[t].message_id = accumulators[t].message_id)
        => accumulators'[t].fragment_count = accumulators[t].fragment_count

\* C26: an accumulator's fragment_count is the one of the first fragment of
\* its message id and never changes, and every fragment index stored in an
\* accumulator is smaller than that fragment_count, also when later
\* fragments of the same type and message id carry another fragment_count.
C26_IndexInvariant ==
    [][/\ CountFixed
       /\ \A t \in DOMAIN accumulators' : IndexesInRange(accumulators'[t])]_vars

\* the first half alone: the fragment_count of an accumulator never changes
CountNeverChanges == [][CountFixed]_vars

(* ------------------------------------------------------------------ *)
(* The defensive errors                                               *)
(* ------------------------------------------------------------------ *)
\* the decoder has emitted the error m (traced runs)
HasEmittedError(m) == \E j \in 1 .. Len(Emitted) : Emitted[j] = ErrorEvent(m)

\* C27: in runs of decode_packet calls on arbitrary packets, without
\* reset_message_state, the decoder never emits 'Reassembly failed', and an
\* accumulator whose fragments_received has reached its fragment_count holds
\* every index 0 .. fragment_count - 1.
C27_NoReassemblyFailed ==
    /\ ~HasEmittedError("Reassembly failed")
    /\ \A t \in DOMAIN accumulators :
          accumulators[t].fragments_received = accumulators[t].fragment_count
              => MissingIndexes(accumulators[t]) = {}

\* C28: whatever packets are passed to decode_packet, and however the calls
\* interleave with deferred reassembly turns, no accumulator's
\* fragments_received exceeds its fragment_count and the decoder never emits
\* 'Fragment count exceeded'.
C28_NoCountExceeded ==
    [][/\ \A j \in 1 .. Len(events') : events'[j] # ErrorEvent("Fragment count exceeded")
       /\ \A t \in DOMAIN accumulators' :
              accumulators'[t].fragments_received <= accumulators'[t].fragment_count
    ]_vars

\* the same while no reassembly is waiting for its deferred turn
NoCountExceededUndeferred ==
    [][immediates = <<>> =>
          \A j \in 1 .. Len(events') : events'[j] # ErrorEvent("Fragment count exceeded")
    ]_vars

(* ------------------------------------------------------------------ *)
(* Deferred reassembly                                                *)
(* ------------------------------------------------------------------ *)
\* the reassembly of message m of type t waits for its deferred turn
ReassemblePending(t, m) ==
    \E j \in 1 .. Len(immediates) :
        immediates[j] = [task |-> "reassemble", message_type |-> t, message_id |-> m]

\* the number of 'message' events emitted for message m of type t
MessageCount(t, m) ==
    Len(SelectSeq(Emitted, LAMBDA e : /\ e.kind = "message"
                                      /\ e.message_type = t
                                      /\ e.message_id = m))

\* C29: once the reassembly of a complete message has been deferred with
\* setImmediate, its 'message' event is eventually emitted when
\* reset_message_state is not called, whatever packets arrive before the
\* deferred turn runs.
C29_DeferredCompletes ==
    \A t \in {0, 1}, m \in {0, MAX_MESSAGE_ID}, n \in 0 .. MaxSteps :
        (ReassemblePending(t, m) /\ MessageCount(t, m) = n)
            ~> (MessageCount(t, m) > n)

\* a deferred turn that finds its accumulator as it was left, complete,
\* emits the message
DeferredTurnDelivers ==
    [][(/\ op' = "_reassemble_message"
        /\ Has(accumulators, Head(immediates).message_type)
        /\ \E a \in { accumulators[Head(immediates).message_type] } :
              /\ a.message_id = Head(immediates).message_id
              /\ a.fragments_received = a.fragment_count
              /\ MissingIndexes(a) = {})
       => /\ Len(events') = 2
          /\ events'[1].kind = "message"
          /\ events'[1].message_id = Head(immediates).message_id
          /\ events'[1].buffer
                = Reassembled(accumulators[Head(immediates).message_type])
    ]_vars

\* C30: every message:incomplete event carries fragments_received strictly
\* smaller than fragment_count: a message of which every fragment has been
\* accepted is never reported as incomplete.
C30_IncompleteIsIncomplete ==
    \A j \in 1 .. Len(Emitted) :
        Emitted[j].kind = "message:incomplete"
            => Emitted[j].fragments_received < Emitted[j].fragment_count

\* the same while no reassembly is waiting for its deferred turn
IncompleteUndeferred ==
    [][immediates = <<>> =>
          \A j \in 1 .. Len(events') :
              events'[j].kind = "message:incomplete"
                  => events'[j].fragments_received < events'[j].fragment_count
    ]_vars

(* ------------------------------------------------------------------ *)
(* Reset and pending deferred turns                                   *)
(* ------------------------------------------------------------------ *)
RECURSIVE Replay(_, _, _, _)
\* the deferred reassemblies waiting after the logged steps l[i .. Len(l)],
\* run from the accumulators accs and the waiting list q: each with its task
\* and whether reset_message_state was called for its type after it was
\* scheduled
Replay(l, i, accs, q) ==
    IF i > Len(l) THEN q
    ELSE IF l[i].op = "decode_packet"
    THEN LET r == decode_packet(source_id, message_types, accs, l[i].packet)
         IN  Replay(l, i + 1, r.accs,
                    q \o [j \in 1 .. Len(r.sched) |->
                             [task |-> r.sched[j], reset |-> FALSE]])
    ELSE IF l[i].op = "reset_message_state"
    THEN Replay(l, i + 1, reset_message_state(accs, l[i].packet),
                [j \in 1 .. Len(q) |->
                    IF l[i].packet = <<>> \/ l[i].packet[1] = q[j].task.message_type
                    THEN [q[j] EXCEPT !.reset = TRUE]
                    ELSE q[j]])
    ELSE Replay(l, i + 1,
                _reassemble_message(accs, Head(q).task.message_type,
                                    Head(q).task.message_id).accs,
                Tail(q))

\* the waiting deferred reassemblies of a traced run, with their reset marks
Waiting == Replay(log, 1, EmptyMap, <<>>)

\* the step is the deferred turn of a reassembly that was scheduled before a
\* reset of its type
StaleTurn ==
    /\ op' = "_reassemble_message"
    /\ Waiting # <<>>
    /\ Head(Waiting).reset

\* C31: a deferred reassembly scheduled for a type before
\* reset_message_state was called for that type (or for all types) emits
\* nothing and changes no accumulator, also when an accumulator for the same
\* message id was created after the reset.
C31_ResetCancels ==
    [][StaleTurn => /\ events' = <<>>
                    /\ accumulators' = accumulators]_vars

\* the same while the reset type has no accumulator at the deferred turn
StaleTurnWithoutAccumulator ==
    [][(StaleTurn /\ ~Has(accumulators, Head(immediates).message_type))
          => /\ events' = <<>>
             /\ accumulators' = accumulators]_vars

(* ------------------------------------------------------------------ *)
(* Accumulator lifecycle                                              *)
(* ------------------------------------------------------------------ *)
\* the logged step i emitted 'message' for type t
Completes(i, t) ==
    \E j \in 1 .. Len(log[i].events) :
        log[i].events[j].kind = "message" /\ log[i].events[j].message_type = t

\* the logged step j is the first decode_packet call on a fragment of type t
\* after step i
NextFragmentOf(i, j, t) ==
    /\ i < j
    /\ log[j].op = "decode_packet"
    /\ TypeOf(log[j].packet) = t
    /\ \A k \in (i + 1) .. (j - 1) :
          log[k].op = "decode_packet" => TypeOf(log[k].packet) # t

\* C32: the decoder holds one accumulator per message type at most; when a
\* step has emitted 'message' and message:complete for type T no accumulator
\* for T is left, and the next valid fragment of type T emits message:start.
C32_Lifecycle ==
    /\ DOMAIN accumulators \subseteq 0 .. 63
    /\ \A t \in {0, 1} :
          (Len(log) > 0 /\ Completes(Len(log), t)) => ~Has(accumulators, t)
    /\ \A t \in {0, 1} : \A i, j \in 1 .. Len(log) :
          (Completes(i, t) /\ NextFragmentOf(i, j, t))
              => /\ log[j].events # <<>>
                 /\ log[j].events[1]
                      = StartEvent(t, IdOf(log[j].packet), CountOf(log[j].packet))

\* after a 'message' of type 0, the next fragment of type 0 started a message
C32_Witness ==
    \E i, j \in 1 .. Len(log) :
        /\ Completes(i, 0)
        /\ NextFragmentOf(i, j, 0)
        /\ log[j].events[1].kind = "message:start"

(* ------------------------------------------------------------------ *)
(* Accumulator counters                                               *)
(* ------------------------------------------------------------------ *)
RECURSIVE SumOfLengths(_, _)
\* the sum of the lengths of the fragments stored under the indexes in ixs
SumOfLengths(fragments, ixs) ==
    IF ixs = {} THEN 0
    ELSE LET i == CHOOSE i \in ixs : TRUE
         IN  Len(fragments[i]) + SumOfLengths(fragments, ixs \ {i})

\* the counters of the accumulator a agree with what it stores
CountersAgree(a) ==
    /\ a.fragments_received = Cardinality(DOMAIN a.fragments)
    /\ a.message_len = SumOfLengths(a.fragments, DOMAIN a.fragments)
    /\ a.fragments_received <= a.fragment_count

\* C33: between calls, every accumulator has fragments_received equal to the
\* number of distinct indexes stored, message_len equal to the sum of the
\* stored payload lengths and fragments_received <= fragment_count; the
\* total_bytes of a 'message' event is the length of its buffer.
C33_Counters ==
    /\ \A t \in DOMAIN accumulators : CountersAgree(accumulators[t])
    /\ \A j \in 1 .. Len(events) :
          events[j].kind = "message" => events[j].total_bytes = Len(events[j].buffer)

\* an accumulator holds two fragments with payload bytes among them
C33_Witness ==
    /\ op = "decode_packet"
    /\ \E t \in DOMAIN accumulators :
          /\ accumulators[t].fragments_received >= 2
          /\ accumulators[t].message_len > 0

(* ------------------------------------------------------------------ *)
(* Concurrent encodings                                               *)
(* ------------------------------------------------------------------ *)
\* the events the step has added to sent
NewlySent == SubSeq(sent', Len(sent) + 1, Len(sent'))

\* the successful call that returned message id m has message type t
CallOf(m, t) ==
    \E k \in 1 .. Len(Successes) :
        Successes[k].ret = << m >> /\ Successes[k].message_type = t

\* C34: encode_message captures the id and increments the counter once, at
\* call time, also while earlier encodings are suspended between fragments;
\* a resumption never changes the counter; every 'packet' and
\* message:encoded event carries the id returned by the call of its message,
\* and the encodings in progress have pairwise distinct ids.
C34_ConcurrentIds ==
    [][/\ op' = "_encode_message_async" =>
             /\ enc_message_id' = enc_message_id
             /\ \A j \in 1 .. Len(NewlySent) :
                   /\ NewlySent[j].message_id = Head(immediates).message_id
                   /\ CallOf(NewlySent[j].message_id, NewlySent[j].message_type)
                   /\ NewlySent[j].kind = "packet" =>
                         IdOf(NewlySent[j].packet) = Head(immediates).message_id
       /\ (op' = "encode_message" /\ enc_ret' # <<>>) =>
             /\ enc_ret' = << enc_message_id >>
             /\ enc_message_id' = (enc_message_id + 1) % 65536
             /\ immediates'[Len(immediates')].message_id = enc_message_id
             /\ sent' = sent
       /\ \A i, j \in 1 .. Len(Running') :
             i # j => Running'[i].message_id # Running'[j].message_id
    ]_vars

\* encode_message has returned an id while two earlier encodings were
\* suspended between fragments
C34_Witness ==
    /\ op = "encode_message"
    /\ enc_ret # <<>>
    /\ Len(Running) = 3
    /\ Running[1].fragment_index > 0
    /\ Running[2].fragment_index > 0
    /\ Running[3].message_id = enc_ret[1]

\* the k-th successful call has been followed by all its 'packet' events and
\* then its message:encoded event
Encoded(k) ==
    /\ k <= Len(Successes)
    /\ \E s \in { EventsOfMessage(Successes[k].ret[1]) } :
          /\ Len(s) = FragmentsNeeded(Successes[k].message_length) + 1
          /\ \A i \in 1 .. (Len(s) - 1) :
                s[i].kind = "packet" /\ s[i].fragment_index = i - 1
          /\ s[Len(s)].kind = "message:encoded"

\* C35: every encode_message call that returns a message id is eventually
\* followed by all fragment_count 'packet' events of the message and then
\* one message:encoded event, for any number of encodings running at the
\* same time, when the event loop keeps running setImmediate callbacks.
C35_EncodingTerminates ==
    \A k \in 1 .. (MaxCalls + 1) : (k <= Len(Successes)) ~> Encoded(k)

\* three encodings started together have all finished
C35_Witness ==
    /\ Len(Successes) = 3
    /\ Encoded(1)
    /\ Encoded(2)
    /\ Encoded(3)
    /\ \E i \in 1 .. Len(sent) :
          sent[i].kind = "message:encoded" /\ sent[i].fragment_count > 1

(* ------------------------------------------------------------------ *)
(* The generator API                                                  *)
(* ------------------------------------------------------------------ *)
\* the arguments of the generator g pass the checks of packetize
ValidGenCall(g) ==
    /\ ~InvalidType(g.packet_type)
    /\ g.payload_buffer.is_buffer
    /\ Ceil(Len(g.payload_buffer.bytes), MAX_PAYLOAD_SIZE) <= ENCODE_FRAGMENT_LIMIT

\* the number of calls with valid arguments among the first n calls
ValidCallsUpTo(n) ==
    Cardinality({ k \in 1 .. n : ValidGenCall(gens[k]) })

\* C36: every call of packetize with valid arguments consumes one message id
\* when it is called, so ids follow the order of the calls, also when the
\* generators are first advanced in another order or never advanced.
C36_IdAtCallTime ==
    /\ gen_message_id = ValidCallsUpTo(Len(gens)) % 65536
    /\ \A k \in 1 .. Len(gens) :
          ValidGenCall(gens[k])
              => gens[k].message_id = << ValidCallsUpTo(k - 1) % 65536 >>

\* what packetize does: a generator takes its id at its first next(), and
\* the counter counts the generators that have been started
IdAtFirstNext ==
    /\ gen_message_id
          = Cardinality({ k \in 1 .. Len(gens) : gens[k].message_id # <<>> }) % 65536
    /\ \A k \in 1 .. Len(gens) :
          /\ gens[k].state = "suspendedStart" => gens[k].message_id = <<>>
          /\ (ValidGenCall(gens[k]) /\ gens[k].state # "suspendedStart")
                => gens[k].message_id # <<>>
    /\ \A j, k \in 1 .. Len(gens) :
          (j # k /\ gens[j].message_id # <<>>)
              => gens[j].message_id # gens[k].message_id

\* C37: packetize and packetize_all on a zero-length Buffer yield exactly
\* one packet, of 12 bytes, with fragment_index 0 and fragment_count 1; the
\* counter advances only for calls that yield at least one packet.
C37_EmptyGenerator ==
    \A k \in 1 .. Len(gens) :
        /\ (/\ gens[k].state = "completed"
            /\ ValidGenCall(gens[k])
            /\ gens[k].payload_buffer.bytes = <<>>)
              => /\ Len(gens[k].packets) = 1
                 /\ Len(gens[k].packets[1]) = HEADER_SIZE
                 /\ IndexOf(gens[k].packets[1]) = 0
                 /\ CountOf(gens[k].packets[1]) = 1
        /\ (gens[k].state = "completed" /\ gens[k].message_id # <<>>)
              => Len(gens[k].packets) >= 1

\* for a buffer that is not empty the generator yields a packet for every
\* fragment, in order, with the generator's id
GeneratorOfNonEmpty ==
    \A k \in 1 .. Len(gens) :
        (/\ gens[k].state = "completed"
         /\ ValidGenCall(gens[k])
         /\ gens[k].payload_buffer.bytes # <<>>)
          => /\ Len(gens[k].packets) = FragmentsNeeded(Len(gens[k].payload_buffer.bytes))
             /\ \A i \in 1 .. Len(gens[k].packets) :
                   /\ IndexOf(gens[k].packets[i]) = i - 1
                   /\ CountOf(gens[k].packets[i]) = Len(gens[k].packets)
                   /\ IdOf(gens[k].packets[i]) = gens[k].message_id[1]

(* ------------------------------------------------------------------ *)
(* Header round trip                                                  *)
(* ------------------------------------------------------------------ *)
\* C38: the 12-byte header written by the encoder (0x4A, then version in
\* bits 6-7 and type in bits 0-5, then little-endian 16-bit message_id,
\* fragment_index, fragment_count and little-endian 32-bit source_id) is
\* parsed by decode_packet back to the same version, type, message_id,
\* fragment_index, fragment_count and source_id.
C38_HeaderRoundTrip ==
    /\ op = "write_header" =>
          /\ Len(pkt) = HEADER_SIZE
          /\ pkt[1] = MAGIC_BYTE
          /\ pkt[2] = VERSION * 64 + call.message_type
          /\ pkt[3] + 256 * pkt[4] = call.message_id
          /\ \A i \in 1 .. HEADER_SIZE : pkt[i] \in 0 .. 255
          /\ ParseHeader(pkt) = [version |-> VERSION,
                                 message_type |-> call.message_type,
                                 message_id |-> call.message_id,
                                 fragment_index |-> call.fragment_index,
                                 fragment_count |-> call.fragment_count,
                                 source_id |-> call.source_id]
    /\ (op = "decode_packet" /\ call.fragment_index < call.fragment_count) =>
          /\ ret
          /\ events[1] = StartEvent(call.message_type, call.message_id,
                                    call.fragment_count)
          /\ events[2].kind = "fragment:received"
          /\ events[2].message_type = call.message_type
          /\ events[2].message_id = call.message_id
          /\ events[2].fragment_index = call.fragment_index
          /\ events[2].fragment_count = call.fragment_count
    /\ (op = "decode_packet" /\ call.fragment_index >= call.fragment_count) =>
          events = << ErrorEvent("Invalid fragment") >>

\* the decoder has accepted a header with the largest values of the fields
C38_Witness ==
    /\ op = "decode_packet"
    /\ ret
    /\ call.message_type = 63
    /\ call.message_id = MAX_MESSAGE_ID
    /\ call.fragment_index = MAX_FRAGMENT_COUNT - 1
    /\ call.fragment_count = MAX_FRAGMENT_COUNT
    /\ call.source_id = 2147483647

(* ------------------------------------------------------------------ *)
(* Completed messages                                                 *)
(* ------------------------------------------------------------------ *)
\* the 'message' events emitted for type t, in order (traced runs)
MessagesOfType(t) ==
    SelectSeq(Emitted, LAMBDA e : e.kind = "message" /\ e.message_type = t)

\* the logged step i emitted 'message' for message m of type t
CompletesMessage(i, t, m) ==
    \E j \in 1 .. Len(log[i].events) :
        /\ log[i].events[j].kind = "message"
        /\ log[i].events[j].message_type = t
        /\ log[i].events[j].message_id = m

\* the logged step j starts an accumulator
StartsMessage(j) ==
    \E k \in 1 .. Len(log[j].events) : log[j].events[k].kind = "message:start"

\* C39: once 'message' has been emitted for message m of type T, a fragment
\* of type T delivered later whose id is older than m starts no accumulator,
\* and the ids of successive 'message' events of one type are strictly
\* newer each time.
C39_MonotonicCompletion ==
    \A t \in {0, 1} :
        /\ \A m \in {0, MAX_MESSAGE_ID} : \A i, j \in 1 .. Len(log) :
              (/\ i < j
               /\ CompletesMessage(i, t, m)
               /\ log[j].op = "decode_packet"
               /\ TypeOf(log[j].packet) = t
               /\ Distance(m, IdOf(log[j].packet)) \in 1 .. 32767)
                  => ~StartsMessage(j)
        /\ \A k \in 1 .. (Len(MessagesOfType(t)) - 1) :
              Distance(MessagesOfType(t)[k + 1].message_id,
                       MessagesOfType(t)[k].message_id) \in 1 .. 32767

\* while an accumulator of a type exists, an older fragment of the type
\* starts nothing
OlderThanAccumulatorIgnored ==
    [][(/\ op' = "decode_packet"
        /\ ValidFragment(pkt')
        /\ Has(accumulators, TypeOf(pkt'))
        /\ Distance(accumulators[TypeOf(pkt')].message_id, IdOf(pkt')) \in 1 .. 32767)
          => events' = <<>> /\ accumulators' = accumulators]_vars

(* ------------------------------------------------------------------ *)
(* Re-entrant listeners                                               *)
(* ------------------------------------------------------------------ *)
\* the step is a deferred reassembly that emitted 'message', during which a
\* listener passed to decode_packet the first fragment of a newer message of
\* the same type
ReentrantNewer ==
    /\ op' = "_reassemble_message"
    /\ pkt' # <<>>
    /\ \E j \in 1 .. Len(events') :
          events'[j].kind = "message"
          /\ events'[j].message_id = Head(immediates).message_id
    /\ TypeOf(pkt') = Head(immediates).message_type
    /\ IndexOf(pkt') = 0
    /\ Distance(IdOf(pkt'), Head(immediates).message_id) \in 1 .. 32767

\* C40: when a listener of 'message' or message:complete calls decode_packet
\* with the first fragment of a newer message of the same type, the
\* accumulator that fragment creates survives the end of
\* _reassemble_message, and the completed message is not reported as
\* message:incomplete.
C40_ReentrantListener ==
    [][ReentrantNewer =>
          /\ \A j \in 1 .. Len(events') : events'[j].kind # "message:incomplete"
          /\ CountOf(pkt') > 1 =>
                /\ Has(accumulators', TypeOf(pkt'))
                /\ accumulators'[TypeOf(pkt')].message_id = IdOf(pkt')
    ]_vars

\* a listener that calls decode_packet for another type loses nothing
ReentrantOtherType ==
    [][(/\ op' = "_reassemble_message"
        /\ pkt' # <<>>
        /\ \E j \in 1 .. Len(events') : events'[j].kind = "message"
        /\ TypeOf(pkt') # Head(immediates).message_type
        /\ ~Has(accumulators, TypeOf(pkt'))
        /\ CountOf(pkt') > 1)
          => /\ Has(accumulators', TypeOf(pkt'))
             /\ \A j \in 1 .. Len(events') : events'[j].kind # "message:incomplete"
    ]_vars

====
